---- MODULE Spec2Model ----
(***************************************************************************)
(* Bazo VM: the fetch/decode/dispatch loop of VM.Exec, its gas metering,   *)
(* the evaluation stack and the call stack.  One action is one iteration   *)
(* of the loop of Exec (one instruction), translated from the case of the  *)
(* switch that handles the opcode.                                         *)
(*                                                                         *)
(* Go's uint64/int64 are modelled as words of WordBits bits: the unsigned  *)
(* arithmetic is taken modulo 2^WordBits and the conversion int64(x) reads *)
(* the same word in two's complement.                                      *)
(***************************************************************************)
EXTENDS Integers, Sequences, FiniteSets, TLC

(* ------------------------------ bounds -------------------------------- *)

\* width of the machine word that stands for uint64 / int64
WordBits == 11

\* memoryMax of the evaluation stack, in bytes
MemoryMax == 128

\* largest gas budget of the lower range the host hands out
MaxFee == 7

\* width of the word that stands for the 32 bits BigIntToUInt accepts
UIntBits == 24

TwoW == 2 ^ WordBits

HalfW == 2 ^ (WordBits - 1)

(* ------------------------------ opcodes ------------------------------- *)

PushInt == 0
PushBool == 1
PushChar == 2
PushStr == 3
Push == 4
Dup == 5
Roll == 6
Swap == 7
Pop == 8
Add == 9
Sub == 10
Mul == 11
Div == 12
Mod == 13
Exp == 14
Neg == 15
Eq == 16
NotEq == 17
Lt == 18
Gt == 19
LtEq == 20
GtEq == 21
ShiftL == 22
ShiftR == 23
BitwiseAnd == 24
BitwiseOr == 25
BitwiseXor == 26
BitwiseNot == 27
NoOp == 28
Jmp == 29
JmpTrue == 30
JmpFalse == 31
Call == 32
CallTrue == 33
CallExt == 34
Ret == 35
Size == 36
StoreLoc == 37
StoreSt == 38
LoadLoc == 39
LoadSt == 40
Address == 41
Issuer == 42
Balance == 43
Caller == 44
CallVal == 45
CallData == 46
NewMap == 47
MapHasKey == 48
MapGetVal == 49
MapSetVal == 50
MapRemove == 51
NewArr == 52
ArrAppend == 53
ArrInsert == 54
ArrRemove == 55
ArrAt == 56
ArrLen == 57
NewStr == 58
StoreFld == 59
LoadFld == 60
SHA3 == 61
CheckSig == 62
ErrHalt == 63
Halt == 64

OpEntry(c, n, p, f) == [code |-> c, Name |-> n, gasPrice |-> p, gasFactor |-> f]

\* the table OpCodes; entry i+1 is the opcode with code i
OpCodes ==
  << OpEntry(PushInt, "pushint", 1, 1), OpEntry(PushBool, "pushbool", 1, 1),
     OpEntry(PushChar, "pushchar", 1, 1), OpEntry(PushStr, "pushstr", 1, 1),
     OpEntry(Push, "push", 1, 1), OpEntry(Dup, "dup", 1, 2),
     OpEntry(Roll, "roll", 1, 2), OpEntry(Swap, "swap", 1, 2),
     OpEntry(Pop, "pop", 1, 1), OpEntry(Add, "add", 1, 2),
     OpEntry(Sub, "sub", 1, 2), OpEntry(Mul, "mult", 1, 2),
     OpEntry(Div, "div", 1, 2), OpEntry(Mod, "mod", 1, 2),
     OpEntry(Exp, "exp", 1, 2), OpEntry(Neg, "neg", 1, 2),
     OpEntry(Eq, "eq", 1, 2), OpEntry(NotEq, "neq", 1, 2),
     OpEntry(Lt, "lt", 1, 2), OpEntry(Gt, "gt", 1, 2),
     OpEntry(LtEq, "lte", 1, 2), OpEntry(GtEq, "gte", 1, 2),
     OpEntry(ShiftL, "shiftl", 1, 2), OpEntry(ShiftR, "shiftr", 1, 2),
     OpEntry(BitwiseAnd, "bitwiseand", 1, 2), OpEntry(BitwiseOr, "bitwiseor", 1, 2),
     OpEntry(BitwiseXor, "bitwisexor", 1, 2), OpEntry(BitwiseNot, "bitwisenot", 1, 2),
     OpEntry(NoOp, "nop", 1, 1), OpEntry(Jmp, "jmp", 1, 1),
     OpEntry(JmpTrue, "jmptrue", 1, 1), OpEntry(JmpFalse, "jmpfalse", 1, 1),
     OpEntry(Call, "call", 1, 1), OpEntry(CallTrue, "callif", 1, 1),
     OpEntry(CallExt, "callext", 1000, 2), OpEntry(Ret, "ret", 1, 1),
     OpEntry(Size, "size", 1, 1), OpEntry(StoreLoc, "storeloc", 1, 2),
     OpEntry(StoreSt, "storest", 1000, 2), OpEntry(LoadLoc, "loadloc", 1, 2),
     OpEntry(LoadSt, "loadst", 10, 2), OpEntry(Address, "address", 1, 1),
     OpEntry(Issuer, "issuer", 1, 1), OpEntry(Balance, "balance", 1, 1),
     OpEntry(Caller, "caller", 1, 1), OpEntry(CallVal, "callval", 1, 1),
     OpEntry(CallData, "calldata", 1, 1), OpEntry(NewMap, "newmap", 1, 2),
     OpEntry(MapHasKey, "maphaskey", 1, 2), OpEntry(MapGetVal, "mapgetval", 1, 2),
     OpEntry(MapSetVal, "mapsetval", 1, 2), OpEntry(MapRemove, "mapremove", 1, 2),
     OpEntry(NewArr, "newarr", 1, 2), OpEntry(ArrAppend, "arrappend", 1, 2),
     OpEntry(ArrInsert, "arrinsert", 1, 2), OpEntry(ArrRemove, "arrremove", 1, 2),
     OpEntry(ArrAt, "arrat", 1, 2), OpEntry(ArrLen, "arrlen", 1, 2),
     OpEntry(NewStr, "newstr", 1, 2), OpEntry(StoreFld, "storefld", 1, 2),
     OpEntry(LoadFld, "loadfld", 1, 2), OpEntry(SHA3, "sha3", 1, 2),
     OpEntry(CheckSig, "checksig", 1, 2), OpEntry(ErrHalt, "errhalt", 0, 1),
     OpEntry(Halt, "halt", 0, 1) >>

OpOf(c) == OpCodes[c + 1]

\* the largest bytecode Exec accepts
MaxCodeLen == 100000

(* ------------------------------ values -------------------------------- *)

\* a value of the evaluation stack is a Go slice: the byte sequence b it
\* holds and ref, the address of its first byte in the memory the slice
\* points into (-1: an array of its own that nothing else refers to yet).
\* A diagnostic is the byte string "<loc>: <msg><arg>", kept by its parts
\* (arg is the number a format verb prints, -1 when the message has none)
Val(b) == [b |-> b, loc |-> "", msg |-> "", arg |-> -1, ref |-> -1]

\* the slice of length Len(b) that starts at the address ref
Slice(b, ref) == [b |-> b, loc |-> "", msg |-> "", arg |-> -1, ref |-> ref]

Diag(loc, msg, arg) == [b |-> <<>>, loc |-> loc, msg |-> msg, arg |-> arg, ref |-> -1]

IsDiag(v) == v.loc # ""

DecLen(n) == IF n < 0 THEN 0 ELSE IF n < 10 THEN 1 ELSE IF n < 100 THEN 2 ELSE 3

\* len(element) of a stack value
ValLen(v) == IF IsDiag(v) THEN Len(v.loc) + 2 + Len(v.msg) + DecLen(v.arg) ELSE Len(v.b)

Zeros(n) == [i \in 1..n |-> 0]

RECURSIVE BytesToNat(_)
\* big.Int.SetBytes / ByteArrayToInt: big-endian unsigned magnitude
BytesToNat(b) == IF Len(b) = 0 THEN 0 ELSE 256 * BytesToNat(SubSeq(b, 1, Len(b) - 1)) + b[Len(b)]

RECURSIVE NatToBytes(_)
\* big.Int.Bytes: minimal big-endian magnitude, empty for zero
NatToBytes(n) == IF n = 0 THEN <<>> ELSE Append(NatToBytes(n \div 256), n % 256)

ByteArrayToInt(b) == BytesToNat(b)

Abs(n) == IF n < 0 THEN -n ELSE n

\* decode signed: fails on the empty input; byte 0 is the sign tag
SignedBigIntConversion(b, err) ==
  IF err # "" THEN [err |-> err, v |-> 0]
  ELSE IF Len(b) = 0 THEN [err |-> "byte array is empty", v |-> 0]
  ELSE LET m == BytesToNat(SubSeq(b, 2, Len(b)))
       IN [err |-> "", v |-> IF b[1] = 1 THEN -m ELSE m]

\* an encoding that keeps the magnitude and loses the sign
SignedByteArrayConversion_Unsigned(n) ==
  IF n = 0 THEN <<0>> ELSE <<0>> \o NatToBytes(Abs(n))

\* encode signed: [0] for zero, else sign byte and minimal magnitude
SignedByteArrayConversion(n) ==
  IF n = 0 THEN <<0>> ELSE <<IF n < 0 THEN 1 ELSE 0>> \o NatToBytes(Abs(n))

UIntMax == 2 ^ UIntBits - 1

UInt16Max == 65535

\* a conversion that compares the signed value with the limit
BigIntToUInt16_SignedLimit(x) ==
  IF x > UInt16Max THEN [err |-> "value cannot be greater than 65535", v |-> 0]
  ELSE [err |-> "", v |-> Abs(x) % (UInt16Max + 1)]

\* big.Int to uint16: the absolute value, refused above 65535
BigIntToUInt16(x) ==
  IF Abs(x) > UInt16Max THEN [err |-> "value cannot be greater than 65535", v |-> 0]
  ELSE [err |-> "", v |-> Abs(x)]

\* big.Int to uint: the absolute value, refused above the 32-bit range
BigIntToUInt(x) ==
  IF Abs(x) > UIntMax THEN [err |-> "value cannot be greater than 32bits", v |-> 0]
  ELSE [err |-> "", v |-> Abs(x)]

RECURSIVE LittleEndian(_, _)
\* the k low bytes of n, least significant first
LittleEndian(n, k) == IF k = 0 THEN <<>> ELSE <<n % 256>> \o LittleEndian(n \div 256, k - 1)

\* 8 bytes, little-endian
UInt64ToByteArray(n) == LittleEndian(n, 8)

BoolToByteArray(c) == IF c THEN <<1>> ELSE <<0>>

\* the remainder of the truncated division, with the sign of x (big.Int.Rem)
BigMod_Truncated(x, y) == IF x >= 0 THEN x % Abs(y) ELSE -((-x) % Abs(y))

\* big.Int.Div and big.Int.Mod are Euclidean: 0 <= m < |y|
BigMod(x, y) == x % Abs(y)

BigDiv(x, y) == IF y > 0 THEN x \div y ELSE -(x \div (-y))

RECURSIVE BigExp(_, _)
\* big.Int.Exp(x, y, nil) = x**y, by repeated squaring
BigExp(x, y) ==
  IF y <= 0 THEN 1
  ELSE LET h == BigExp(x, y \div 2) IN IF y % 2 = 0 THEN h * h ELSE h * h * x

\* uint64(x) of a non-negative number: its low word
U64(x) == x % TwoW

\* int64(u) of a word: two's complement
I64(u) == IF u >= HalfW THEN u - TwoW ELSE u

(* ----------------------- evaluation stack (Stack) --------------------- *)

\* the first address of the arrays the run allocates: above the bytecode
HeapBase == MaxCodeLen + 1

\* a slice that has no address yet is a new array: it gets the next free
\* addresses of the heap
Located(s, v) ==
  IF v.ref = -1 /\ ~IsDiag(v) /\ Len(v.b) > 0 THEN [v EXCEPT !.ref = s.heap] ELSE v

\* Stack.Push: fails when the new total would exceed memoryMax; the stack
\* keeps the slice it is handed, not a copy of its bytes
StackPush(s, v) ==
  IF s.mem + ValLen(v) > MemoryMax
  THEN [err |-> "stack overflow / memory exceeded", s |-> s]
  ELSE [err |-> "",
        s |-> [s EXCEPT !.stack = Append(@, Located(s, v)), !.mem = @ + ValLen(v),
                        !.heap = IF Located(s, v) = v THEN @ ELSE @ + Len(v.b)]]

\* Stack.Pop: returns the slice that was pushed
StackPop(s) ==
  IF Len(s.stack) = 0
  THEN [err |-> "pop() on empty stack", b |-> <<>>, ref |-> -1, s |-> s]
  ELSE LET v == s.stack[Len(s.stack)]
       IN [err |-> "", b |-> v.b, ref |-> v.ref,
           s |-> [s EXCEPT !.stack = SubSeq(@, 1, Len(@) - 1), !.mem = @ - ValLen(v)]]

\* Stack.PopIndexAt: removes the element at index i counted from the bottom
StackPopIndexAt(s, i) ==
  IF i < 0 \/ i >= Len(s.stack)
  THEN [err |-> "index out of bounds", b |-> <<>>, ref |-> -1, s |-> s]
  ELSE LET v == s.stack[i + 1]
       IN [err |-> "", b |-> v.b, ref |-> v.ref,
           s |-> [s EXCEPT !.stack = SubSeq(@, 1, i) \o SubSeq(@, i + 2, Len(@)),
                           !.mem = @ - ValLen(v)]]

(* ------------------------- call stack (CallStack) --------------------- *)

CallStackPush(s, frame) == [s EXCEPT !.cs = Append(@, frame)]

\* Pop that reports success and leaves the frame on the call stack
CallStackPop_Keeps(s) ==
  IF Len(s.cs) > 0
  THEN [err |-> "", s |-> s]
  ELSE [err |-> "pop() on empty callStack", s |-> s]

\* CallStack.Pop
CallStackPop(s) ==
  IF Len(s.cs) > 0
  THEN [err |-> "", s |-> [s EXCEPT !.cs = SubSeq(@, 1, Len(@) - 1)]]
  ELSE [err |-> "pop() on empty callStack", s |-> s]

\* Peek that returns the oldest frame instead of the newest
CallStackPeek_Bottom(s) ==
  IF Len(s.cs) > 0
  THEN [err |-> "", i |-> 1]
  ELSE [err |-> "peek() on empty callStack", i |-> 0]

\* CallStack.Peek: the index of the newest frame
CallStackPeek(s) ==
  IF Len(s.cs) > 0
  THEN [err |-> "", i |-> Len(s.cs)]
  ELSE [err |-> "peek() on empty callStack", i |-> 0]

(* ------------------------------- state -------------------------------- *)

VARIABLES
  ctxContract,      \* Context.GetContract(): the bytecode the host supplies
  ctxFee,           \* Context.GetFee(): the gas budget the host supplies
  ctxData,          \* Context.GetTransactionData()
  contractVariables,\* the host's contract variables (Get/SetContractVariable)
  code,             \* VM.code
  pc,               \* VM.pc
  fee,              \* VM.fee
  evaluationStack,  \* VM.evaluationStack.Stack
  memoryUsage,      \* VM.evaluationStack.memoryUsage
  callStack,        \* VM.callStack.values
  heapTop,          \* the next free address of the heap of the run
  status,           \* where Exec is: Created, Running, ReturnedTrue, ReturnedFalse, Panicked
  instrCount,       \* history: iterations of the loop that fetched an opcode byte
  lastOp,           \* history: the byte fetched as opcode by the last iteration (-1: none)
  trap,             \* history: the diagnostics the last iteration handed to the stack
  utilCall,         \* the function of utils.go under test ("": none applied yet, or none at all)
  utilArg,          \* the argument the function under test is applied to
  utilRes           \* what the function under test returned

vars == << ctxContract, ctxFee, ctxData, contractVariables, code, pc, fee, evaluationStack,
           memoryUsage, callStack, heapTop, status, instrCount, lastOp, trap,
           utilCall, utilArg, utilRes >>

\* the fields an instruction works on, as one record; wr lists the bytes
\* the instruction writes in place, as pairs << address, byte >>
Cur == [pc |-> pc, fee |-> fee, stack |-> evaluationStack, mem |-> memoryUsage,
        cs |-> callStack, cv |-> contractVariables, heap |-> heapTop, wr |-> <<>>,
        out |-> "run", trap |-> <<>>]

(* ---------------------- fetch and error reporting --------------------- *)

\* VM.fetch
Fetch(s) ==
  IF Len(code) > s.pc
  THEN [err |-> "", v |-> code[s.pc + 1], s |-> [s EXCEPT !.pc = @ + 1]]
  ELSE [err |-> "Instruction set out of bounds", v |-> 0, s |-> s]

\* fetchMany that accepts an argument ending at the last byte of the code
FetchMany_Inclusive(s, argument) ==
  IF Len(code) - s.pc >= argument
  THEN [err |-> "", v |-> SubSeq(code, s.pc + 1, s.pc + argument), ref |-> s.pc,
        s |-> [s EXCEPT !.pc = @ + argument]]
  ELSE [err |-> "Instruction set out of bounds", v |-> <<>>, ref |-> -1, s |-> s]

\* VM.fetchMany: the slice vm.code[tempPc : tempPc+argument], which shares
\* its bytes with the bytecode
FetchMany(s, argument) ==
  IF Len(code) - s.pc > argument
  THEN [err |-> "", v |-> SubSeq(code, s.pc + 1, s.pc + argument), ref |-> s.pc,
        s |-> [s EXCEPT !.pc = @ + argument]]
  ELSE [err |-> "Instruction set out of bounds", v |-> <<>>, ref |-> -1, s |-> s]

\* evaluationStack.Push([]byte(loc + ": " + msg)) with the result ignored
PushDiag(s, loc, msg, arg) ==
  LET d == Diag(loc, msg, arg)
  IN [StackPush(s, d).s EXCEPT !.trap = Append(@, d)]

\* return false
Fail(s) == [s EXCEPT !.out = "false"]

\* the diagnostic is pushed and the return is forgotten: the loop goes on
TrapWith_NoReturn(s, loc, msg) == PushDiag(s, loc, msg, -1)

\* push the diagnostic and return false
TrapWith(s, loc, msg) == Fail(PushDiag(s, loc, msg, -1))

TrapArg(s, loc, msg, arg) == Fail(PushDiag(s, loc, msg, arg))

RECURSIVE FirstErr(_)
\* VM.checkErrors: the first error of the list that is not nil ("" is nil)
FirstErr(errs) ==
  IF Len(errs) = 0 THEN ""
  ELSE IF errs[1] # "" THEN errs[1] ELSE FirstErr(Tail(errs))

\* err = Push(v); if err != nil { push diagnostic; return false }
PushValOrTrap(s, loc, v) ==
  LET r == StackPush(s, v)
  IN IF r.err # "" THEN TrapWith(s, loc, r.err) ELSE r.s

\* the same for a value the instruction has just made
PushOrTrap(s, loc, b) == PushValOrTrap(s, loc, Val(b))

(* ----------------------------- metered pops --------------------------- *)

\* the charge of a metered pop: gasFactor * ceil(len / 64)
PopCost(opCode, b) == U64(opCode.gasFactor * ((Len(b) + 64 - 1) \div 64))

\* PopBytes without the test of the remaining fee: the charge is subtracted
\* in uint64 whatever the fee
PopBytes_Unchecked(s, opCode) ==
  LET p == StackPop(s)
  IN IF p.err # "" THEN [err |-> p.err, b |-> <<>>, ref |-> -1, s |-> s]
     ELSE [err |-> "", b |-> p.b, ref |-> p.ref,
           s |-> [p.s EXCEPT !.fee = U64(@ - PopCost(opCode, p.b))]]

\* PopBytes that subtracts the charge also when it reports Out of gas
PopBytes_ChargesFailure(s, opCode) ==
  LET p == StackPop(s)
      gasCost == PopCost(opCode, p.b)
  IN IF p.err # "" THEN [err |-> p.err, b |-> <<>>, ref |-> -1, s |-> s]
     ELSE IF I64(U64(p.s.fee - gasCost)) < 0
       THEN [err |-> "Out of gas", b |-> <<>>, ref |-> -1,
             s |-> [p.s EXCEPT !.fee = U64(@ - gasCost)]]
     ELSE [err |-> "", b |-> p.b, ref |-> p.ref, s |-> [p.s EXCEPT !.fee = U64(@ - gasCost)]]

\* VM.PopBytes
PopBytes(s, opCode) ==
  LET p == StackPop(s)
      gasCost == PopCost(opCode, p.b)
  IN IF p.err # "" THEN [err |-> p.err, b |-> <<>>, ref |-> -1, s |-> s]
     ELSE IF I64(U64(p.s.fee - gasCost)) < 0
       THEN [err |-> "Out of gas", b |-> <<>>, ref |-> -1, s |-> p.s]
     ELSE [err |-> "", b |-> p.b, ref |-> p.ref, s |-> [p.s EXCEPT !.fee = U64(@ - gasCost)]]

\* VM.PopSignedBigInt
PopSignedBigInt(s, opCode) ==
  LET p == PopBytes(s, opCode)
      c == SignedBigIntConversion(p.b, "")
  IN IF p.err # "" THEN [err |-> p.err, v |-> 0, s |-> p.s]
     ELSE [err |-> c.err, v |-> c.v, s |-> p.s]

\* VM.PopUnsignedBigInt
PopUnsignedBigInt(s, opCode) ==
  LET p == PopBytes(s, opCode)
  IN IF p.err # "" THEN [err |-> p.err, v |-> 0, s |-> p.s]
     ELSE [err |-> "", v |-> BytesToNat(p.b), s |-> p.s]

(* --------------------------- the step of Exec ------------------------- *)

\* cap of the history counter instrCount: above every gas budget
MaxSteps == TwoW + 1

\* the Go runtime panics: Exec does not return
Panic(s) == [s EXCEPT !.out = "panic"]

StatusOf(out) ==
  CASE out = "run" -> "Running"
    [] out = "true" -> "ReturnedTrue"
    [] out = "false" -> "ReturnedFalse"
    [] out = "panic" -> "Panicked"

\* the slice v after the byte x was written at the address a
PokeVal(v, a, x) ==
  IF v.ref >= 0 /\ a >= v.ref /\ a < v.ref + Len(v.b)
  THEN [v EXCEPT !.b[a - v.ref + 1] = x] ELSE v

RECURSIVE Poke(_, _)
\* the memory after the writes wr: every slice that covers a written address
\* (the bytecode, the values of the evaluation stack, the locals of the
\* frames) holds the written byte
Poke(m, wr) ==
  IF Len(wr) = 0 THEN m
  ELSE LET a == wr[1][1]
           x == wr[1][2]
       IN Poke([code |-> [i \in 1..Len(m.code) |-> IF i = a + 1 THEN x ELSE m.code[i]],
                stack |-> [i \in 1..Len(m.stack) |-> PokeVal(m.stack[i], a, x)],
                cs |-> [i \in 1..Len(m.cs) |->
                         [m.cs[i] EXCEPT !.variables =
                            [k \in DOMAIN @ |-> PokeVal(@[k], a, x)]]]],
               Tail(wr))

\* the state r becomes the state of the VM
Apply(res, op, counted) ==
  \E r \in {res} : \E m \in {Poke([code |-> code, stack |-> r.stack, cs |-> r.cs], r.wr)} :
    /\ pc' = r.pc
    /\ fee' = r.fee
    /\ code' = m.code
    /\ evaluationStack' = m.stack
    /\ memoryUsage' = r.mem
    /\ callStack' = m.cs
    /\ heapTop' = r.heap
    /\ contractVariables' = r.cv
    /\ status' = StatusOf(r.out)
    /\ trap' = r.trap
    /\ lastOp' = op
    /\ instrCount' = instrCount + counted
    /\ UNCHANGED << ctxContract, ctxFee, ctxData >>
    /\ UNCHANGED << utilCall, utilArg, utilRes >>

\* Exec up to the loop: load the code and the fee, refuse an oversized code
ExecStart ==
  /\ status = "Created"
  /\ code' = ctxContract
  /\ fee' = ctxFee
  /\ LET r == IF Len(ctxContract) > MaxCodeLen
              THEN TrapWith(Cur, "vm.exec()", "Instruction set to big")
              ELSE Cur
     IN /\ evaluationStack' = r.stack
        /\ memoryUsage' = r.mem
        /\ status' = StatusOf(r.out)
        /\ trap' = r.trap
  /\ UNCHANGED << ctxContract, ctxFee, ctxData, contractVariables, pc, callStack, heapTop,
                  instrCount, lastOp >>
  /\ UNCHANGED << utilCall, utilArg, utilRes >>

Looping == status = "Running" /\ instrCount < MaxSteps

(* ----------------------- fetch, decode, base price -------------------- *)

\* the fetch of the opcode byte fails
FetchFail ==
  /\ Looping
  /\ Fetch(Cur).err # ""
  /\ Apply(TrapWith(Cur, "vm.exec()", Fetch(Cur).err), -1, 0)

\* the byte that is not in the table is charged the price of a simple opcode
InvalidOpCode_Charged ==
  /\ Looping
  /\ Fetch(Cur).err = ""
  /\ Len(OpCodes) <= Fetch(Cur).v
  /\ Apply(TrapWith([Fetch(Cur).s EXCEPT !.fee = IF @ > 0 THEN @ - 1 ELSE @],
                    "vm.exec()", "Not a valid opCode"), Fetch(Cur).v, 1)

\* the byte fetched is not in the table
InvalidOpCode ==
  /\ Looping
  /\ Fetch(Cur).err = ""
  /\ Len(OpCodes) <= Fetch(Cur).v
  /\ Apply(TrapWith(Fetch(Cur).s, "vm.exec()", "Not a valid opCode"), Fetch(Cur).v, 1)

\* the fee does not cover the base price of the opcode
OutOfGas ==
  /\ Looping
  /\ Fetch(Cur).err = ""
  /\ Len(OpCodes) > Fetch(Cur).v
  /\ fee < OpOf(Fetch(Cur).v).gasPrice
  /\ Apply(TrapWith(Fetch(Cur).s, "vm.exec()", "out of gas"), Fetch(Cur).v, 1)

\* the opcode op is fetched and its base price can be paid
Dispatch(op) ==
  /\ Looping
  /\ Fetch(Cur).err = ""
  /\ Fetch(Cur).v = op
  /\ fee >= OpOf(op).gasPrice

\* the opcode is dispatched and its base price is not subtracted
Charged_Free(opCode) == Fetch(Cur).s

\* the state after the fetch of the opcode and vm.fee -= opCode.gasPrice
Charged(opCode) == [Fetch(Cur).s EXCEPT !.fee = U64(@ - opCode.gasPrice)]

(* ------------------------- instruction semantics ---------------------- *)
(* Each Do<Op> is one iteration of the loop of VM.Exec that dispatches to  *)
(* the case of the opcode: s is the state reached after the opcode byte    *)
(* was fetched and its base price charged, opCode the entry of the table.  *)
(* A value the case computes once is bound once, by \E over a singleton.   *)

DoPushInt ==
  /\ Dispatch(PushInt)
  /\ \E opCode \in {OpOf(PushInt)} : \E s \in {Charged(opCode)} :
       \E f1 \in {Fetch(s)} :
         IF f1.err # "" THEN Apply(TrapWith(f1.s, opCode.Name, f1.err), opCode.code, 1)
         ELSE IF f1.v = 0 THEN Apply(PushOrTrap(f1.s, opCode.Name, <<0>>), opCode.code, 1)
         ELSE \E f2 \in {FetchMany(f1.s, f1.v + 1)} :
                IF f2.err # "" THEN Apply(TrapWith(f2.s, opCode.Name, f2.err), opCode.code, 1)
                ELSE Apply(PushValOrTrap(f2.s, opCode.Name, Slice(f2.v, f2.ref)),
                           opCode.code, 1)

DoPushBool ==
  /\ Dispatch(PushBool)
  /\ \E opCode \in {OpOf(PushBool)} : \E s \in {Charged(opCode)} :
       \E f1 \in {Fetch(s)} :
         IF f1.err # "" THEN Apply(TrapWith(f1.s, opCode.Name, f1.err), opCode.code, 1)
         ELSE IF f1.v > 1
           THEN Apply(TrapArg(f1.s, opCode.Name, "invalid bool value ", f1.v), opCode.code, 1)
         ELSE Apply(PushOrTrap(f1.s, opCode.Name, <<f1.v>>), opCode.code, 1)

DoPushChar ==
  /\ Dispatch(PushChar)
  /\ \E opCode \in {OpOf(PushChar)} : \E s \in {Charged(opCode)} :
       \E f1 \in {Fetch(s)} :
         IF f1.err # "" THEN Apply(TrapWith(f1.s, opCode.Name, f1.err), opCode.code, 1)
         ELSE IF f1.v > 127
           THEN Apply(TrapArg(f1.s, opCode.Name, "invalid ASCII code ", f1.v), opCode.code, 1)
         ELSE Apply(PushOrTrap(f1.s, opCode.Name, <<f1.v>>), opCode.code, 1)

DoPushStr ==
  /\ Dispatch(PushStr)
  /\ \E opCode \in {OpOf(PushStr)} : \E s \in {Charged(opCode)} :
       \E f1 \in {Fetch(s)} : \E f2 \in {FetchMany(f1.s, f1.v)} :
       \E e \in {FirstErr(<<f1.err, f2.err>>)} :
       \E bad \in {{i \in 1..Len(f2.v) : f2.v[i] > 127}} :
         IF e # "" THEN Apply(TrapWith(f2.s, opCode.Name, e), opCode.code, 1)
         ELSE IF bad # {}
           THEN Apply(TrapArg(f2.s, opCode.Name, "invalid ASCII code ",
                              f2.v[CHOOSE i \in bad : \A j \in bad : i <= j]), opCode.code, 1)
         ELSE Apply(PushValOrTrap(f2.s, opCode.Name, Slice(f2.v, f2.ref)), opCode.code, 1)

DoPush ==
  /\ Dispatch(Push)
  /\ \E opCode \in {OpOf(Push)} : \E s \in {Charged(opCode)} :
       \E f1 \in {Fetch(s)} : \E f2 \in {FetchMany(f1.s, f1.v)} :
       \E e \in {FirstErr(<<f1.err, f2.err>>)} :
         IF e # "" THEN Apply(TrapWith(f2.s, opCode.Name, e), opCode.code, 1)
         ELSE Apply(PushValOrTrap(f2.s, opCode.Name, Slice(f2.v, f2.ref)), opCode.code, 1)

DoDup ==
  /\ Dispatch(Dup)
  /\ \E opCode \in {OpOf(Dup)} : \E s \in {Charged(opCode)} :
       \E p \in {PopBytes(s, opCode)} :
         IF p.err # "" THEN Apply(TrapWith(p.s, opCode.Name, p.err), opCode.code, 1)
         ELSE \E tos \in {Slice(p.b, p.ref)} :
              \E r1 \in {PushValOrTrap(p.s, opCode.Name, tos)} :
                IF r1.out # "run" THEN Apply(r1, opCode.code, 1)
                ELSE Apply(PushValOrTrap(r1, opCode.Name, tos), opCode.code, 1)

\* Roll that takes the element arg + 1 positions below the top
DoRoll_OneOff ==
  /\ Dispatch(Roll)
  /\ \E opCode \in {OpOf(Roll)} : \E s \in {Charged(opCode)} :
       \E f1 \in {Fetch(s)} : \E index \in {Len(s.stack) - (f1.v + 1)} :
         IF f1.err # "" THEN Apply(TrapWith(f1.s, opCode.Name, f1.err), opCode.code, 1)
         ELSE IF index = -1 THEN Apply(f1.s, opCode.code, 1)
         ELSE IF f1.v >= Len(f1.s.stack)
           THEN Apply(TrapWith(f1.s, opCode.Name, "index out of bounds"), opCode.code, 1)
         ELSE \E p \in {StackPopIndexAt(f1.s, index)} :
                IF p.err # "" THEN Apply(TrapWith(p.s, opCode.Name, p.err), opCode.code, 1)
                ELSE Apply(PushValOrTrap(p.s, opCode.Name, Slice(p.b, p.ref)), opCode.code, 1)

\* Roll whose removal of the element leaves memoryUsage as it was
DoRoll_Unaccounted ==
  /\ Dispatch(Roll)
  /\ \E opCode \in {OpOf(Roll)} : \E s \in {Charged(opCode)} :
       \E f1 \in {Fetch(s)} : \E index \in {Len(s.stack) - (f1.v + 2)} :
         IF f1.err # "" THEN Apply(TrapWith(f1.s, opCode.Name, f1.err), opCode.code, 1)
         ELSE IF index = -1 THEN Apply(f1.s, opCode.code, 1)
         ELSE IF f1.v >= Len(f1.s.stack)
           THEN Apply(TrapWith(f1.s, opCode.Name, "index out of bounds"), opCode.code, 1)
         ELSE \E p \in {StackPopIndexAt(f1.s, index)} :
                IF p.err # "" THEN Apply(TrapWith(p.s, opCode.Name, p.err), opCode.code, 1)
                ELSE Apply(PushValOrTrap([p.s EXCEPT !.mem = f1.s.mem], opCode.Name,
                                         Slice(p.b, p.ref)), opCode.code, 1)

DoRoll ==
  /\ Dispatch(Roll)
  /\ \E opCode \in {OpOf(Roll)} : \E s \in {Charged(opCode)} :
       \E f1 \in {Fetch(s)} : \E index \in {Len(s.stack) - (f1.v + 2)} :
         IF f1.err # "" THEN Apply(TrapWith(f1.s, opCode.Name, f1.err), opCode.code, 1)
         ELSE IF index = -1 THEN Apply(f1.s, opCode.code, 1)
         ELSE IF f1.v >= Len(f1.s.stack)
           THEN Apply(TrapWith(f1.s, opCode.Name, "index out of bounds"), opCode.code, 1)
         ELSE \E p \in {StackPopIndexAt(f1.s, index)} :
                IF p.err # "" THEN Apply(TrapWith(p.s, opCode.Name, p.err), opCode.code, 1)
                ELSE Apply(PushValOrTrap(p.s, opCode.Name, Slice(p.b, p.ref)), opCode.code, 1)

DoSwap ==
  /\ Dispatch(Swap)
  /\ \E opCode \in {OpOf(Swap)} : \E s \in {Charged(opCode)} :
       \E p1 \in {StackPop(s)} : \E p2 \in {StackPop(p1.s)} :
       \E e \in {FirstErr(<<p1.err, p2.err>>)} :
         IF e # "" THEN Apply(TrapWith(p2.s, opCode.Name, e), opCode.code, 1)
         ELSE \E r1 \in {StackPush(p2.s, Slice(p1.b, p1.ref))} :
              \E r2 \in {StackPush(r1.s, Slice(p2.b, p2.ref))} :
              \E e2 \in {FirstErr(<<r1.err, r2.err>>)} :
                IF e2 # "" THEN Apply(TrapWith(r2.s, opCode.Name, e2), opCode.code, 1)
                ELSE Apply(r2.s, opCode.code, 1)

DoPop ==
  /\ Dispatch(Pop)
  /\ \E opCode \in {OpOf(Pop)} : \E s \in {Charged(opCode)} :
       \E p \in {PopBytes(s, opCode)} :
         IF p.err # "" THEN Apply(TrapWith(p.s, opCode.Name, p.err), opCode.code, 1)
         ELSE Apply(p.s, opCode.code, 1)

\* the function each arithmetic case hands to evaluateBigIntOperation or calls itself:
\* left.Add(left, right), left.Sub, left.Mul, left.Div, left.Mod
BigOp(op, l, r) ==
  CASE op = Add -> l + r
    [] op = Sub -> l - r
    [] op = Mul -> l * r
    [] op = Div -> BigDiv(l, r)
    [] op = Mod -> BigMod(l, r)

\* VM.evaluateBigIntOperation; exec is the opcode whose function is applied to left
EvaluateBigIntOperation(s, opCode, exec) ==
  \E right \in {PopSignedBigInt(s, opCode)} : \E left \in {PopSignedBigInt(right.s, opCode)} :
  \E e \in {FirstErr(<<right.err, left.err>>)} :
    IF e # "" THEN Apply(TrapWith(left.s, opCode.Name, e), opCode.code, 1)
    ELSE Apply(PushOrTrap(left.s, opCode.Name,
                          SignedByteArrayConversion(BigOp(exec, left.v, right.v))), opCode.code, 1)

DoAdd ==
  /\ Dispatch(Add)
  /\ \E opCode \in {OpOf(Add)} : \E s \in {Charged(opCode)} :
       EvaluateBigIntOperation(s, opCode, Add)

DoSub ==
  /\ Dispatch(Sub)
  /\ \E opCode \in {OpOf(Sub)} : \E s \in {Charged(opCode)} :
       EvaluateBigIntOperation(s, opCode, Sub)

DoMul ==
  /\ Dispatch(Mul)
  /\ \E opCode \in {OpOf(Mul)} : \E s \in {Charged(opCode)} :
       EvaluateBigIntOperation(s, opCode, Mul)

\* gasCost of Exp: opCode.gasPrice*uint64(right.Int64()) - opCode.gasPrice, in uint64
ExpGasCost(opCode, e) == U64(opCode.gasPrice * U64(e) - opCode.gasPrice)

\* Exp that takes the first popped value as the exponent and the second as the base
DoExp_Swapped ==
  /\ Dispatch(Exp)
  /\ \E opCode \in {OpOf(Exp)} : \E s \in {Charged(opCode)} :
       \E right \in {PopSignedBigInt(s, opCode)} : \E left \in {PopSignedBigInt(right.s, opCode)} :
       \E e \in {FirstErr(<<right.err, left.err>>)} :
         IF e # "" THEN Apply(TrapWith(left.s, opCode.Name, e), opCode.code, 1)
         ELSE IF right.v < 0
           THEN Apply(TrapWith(left.s, opCode.Name, "Negative exponents are not allowed."),
                      opCode.code, 1)
         ELSE IF I64(U64(left.s.fee - ExpGasCost(opCode, right.v))) < 0
           THEN Apply(TrapWith(left.s, opCode.Name, "Out of gas"), opCode.code, 1)
         ELSE Apply(PushOrTrap(left.s, opCode.Name,
                               SignedByteArrayConversion(BigExp(left.v, right.v))), opCode.code, 1)

DoExp ==
  /\ Dispatch(Exp)
  /\ \E opCode \in {OpOf(Exp)} : \E s \in {Charged(opCode)} :
       \E left \in {PopSignedBigInt(s, opCode)} : \E right \in {PopSignedBigInt(left.s, opCode)} :
       \E e \in {FirstErr(<<left.err, right.err>>)} :
         IF e # "" THEN Apply(TrapWith(right.s, opCode.Name, e), opCode.code, 1)
         ELSE IF right.v < 0
           THEN Apply(TrapWith(right.s, opCode.Name, "Negative exponents are not allowed."),
                      opCode.code, 1)
         ELSE IF I64(U64(right.s.fee - ExpGasCost(opCode, right.v))) < 0
           THEN Apply(TrapWith(right.s, opCode.Name, "Out of gas"), opCode.code, 1)
         ELSE Apply(PushOrTrap(right.s, opCode.Name,
                               SignedByteArrayConversion(BigExp(left.v, right.v))), opCode.code, 1)

\* Div and Mod that recognise the zero divisor by its canonical bytes [0]
\* only: big.Int panics on the division by another encoding of zero
ExecDivMod_CanonicalZeroOnly(s, opCode, exec) ==
  \E r \in {PopBytes(s, opCode)} : \E l \in {PopBytes(r.s, opCode)} :
  \E right \in {SignedBigIntConversion(r.b, r.err)} :
  \E left \in {SignedBigIntConversion(l.b, l.err)} :
  \E e \in {FirstErr(<<right.err, left.err>>)} :
    IF e # "" THEN Apply(TrapWith(l.s, opCode.Name, e), opCode.code, 1)
    ELSE IF r.b = <<0>>
      THEN Apply(TrapWith(l.s, opCode.Name, "Division by Zero"), opCode.code, 1)
    ELSE IF right.v = 0 THEN Apply(Panic(l.s), opCode.code, 1)
    ELSE Apply(PushOrTrap(l.s, opCode.Name,
                          SignedByteArrayConversion(BigOp(exec, left.v, right.v))), opCode.code, 1)

\* the cases Div and Mod of the switch
ExecDivMod(s, opCode, exec) ==
  \E right \in {PopSignedBigInt(s, opCode)} : \E left \in {PopSignedBigInt(right.s, opCode)} :
  \E e \in {FirstErr(<<right.err, left.err>>)} :
    IF e # "" THEN Apply(TrapWith(left.s, opCode.Name, e), opCode.code, 1)
    ELSE IF right.v = 0
      THEN Apply(TrapWith(left.s, opCode.Name, "Division by Zero"), opCode.code, 1)
    ELSE Apply(PushOrTrap(left.s, opCode.Name,
                          SignedByteArrayConversion(BigOp(exec, left.v, right.v))), opCode.code, 1)

DoDiv ==
  /\ Dispatch(Div)
  /\ \E opCode \in {OpOf(Div)} : \E s \in {Charged(opCode)} :
       ExecDivMod(s, opCode, Div)

DoMod ==
  /\ Dispatch(Mod)
  /\ \E opCode \in {OpOf(Mod)} : \E s \in {Charged(opCode)} :
       ExecDivMod(s, opCode, Mod)

\* tos[0] = x: the byte is written through the slice, into the array the
\* slice points into
WriteFirst(s, ref, x) == IF ref >= 0 THEN [s EXCEPT !.wr = Append(@, <<ref, x>>)] ELSE s

\* Neg that accepts the single byte 0 or 1 only
DoNeg_BoolOnly ==
  /\ Dispatch(Neg)
  /\ \E opCode \in {OpOf(Neg)} : \E s \in {Charged(opCode)} :
       \E p \in {PopBytes(s, opCode)} :
         IF p.err # "" THEN Apply(TrapWith(p.s, opCode.Name, p.err), opCode.code, 1)
         ELSE IF Len(p.b) = 0 THEN Apply(Panic(p.s), opCode.code, 1)
         ELSE IF p.b[1] \notin {0, 1} \/ Len(p.b) # 1
           THEN Apply(TrapArg(p.s, opCode.Name, "unable to negate ", p.b[1]), opCode.code, 1)
         ELSE Apply(PushValOrTrap(WriteFirst(p.s, p.ref, 1 - p.b[1]), opCode.Name,
                                  Slice([p.b EXCEPT ![1] = 1 - @], p.ref)), opCode.code, 1)

\* tos[0] of an empty value is an index out of range: the Go runtime panics
DoNeg ==
  /\ Dispatch(Neg)
  /\ \E opCode \in {OpOf(Neg)} : \E s \in {Charged(opCode)} :
       \E p \in {PopBytes(s, opCode)} :
         IF p.err # "" THEN Apply(TrapWith(p.s, opCode.Name, p.err), opCode.code, 1)
         ELSE IF Len(p.b) = 0 THEN Apply(Panic(p.s), opCode.code, 1)
         ELSE IF p.b[1] \notin {0, 1}
           THEN Apply(TrapArg(p.s, opCode.Name, "unable to negate ", p.b[1]), opCode.code, 1)
         ELSE Apply(PushValOrTrap(WriteFirst(p.s, p.ref, 1 - p.b[1]), opCode.Name,
                                  Slice([p.b EXCEPT ![1] = 1 - @], p.ref)), opCode.code, 1)

\* the cases Eq and NotEq of the switch
ExecEqNotEq(s, opCode, want) ==
  \E right \in {PopBytes(s, opCode)} : \E left \in {PopBytes(right.s, opCode)} :
  \E e \in {FirstErr(<<right.err, left.err>>)} :
    IF e # "" THEN Apply(TrapWith(left.s, opCode.Name, e), opCode.code, 1)
    ELSE Apply(PushOrTrap(left.s, opCode.Name, BoolToByteArray((left.b = right.b) = want)),
               opCode.code, 1)

DoEq ==
  /\ Dispatch(Eq)
  /\ \E opCode \in {OpOf(Eq)} : \E s \in {Charged(opCode)} :
       ExecEqNotEq(s, opCode, TRUE)

DoNotEq ==
  /\ Dispatch(NotEq)
  /\ \E opCode \in {OpOf(NotEq)} : \E s \in {Charged(opCode)} :
       ExecEqNotEq(s, opCode, FALSE)

\* bytes.Compare / big.Int.Cmp: -1, 0 or 1
Cmp(x, y) == IF x < y THEN -1 ELSE IF x > y THEN 1 ELSE 0

\* VM.evaluateRelationalComp
EvaluateRelationalComp(s, opCode, expectedResult) ==
  \E right \in {PopBytes(s, opCode)} : \E left \in {PopBytes(right.s, opCode)} :
  \E e \in {FirstErr(<<right.err, left.err>>)} :
    IF e # "" THEN Apply(TrapWith(left.s, opCode.Name, e), opCode.code, 1)
    ELSE IF Len(left.b) = 1 /\ Len(right.b) = 1
      THEN Apply(PushOrTrap(left.s, opCode.Name,
                            BoolToByteArray(Cmp(left.b[1], right.b[1]) \in expectedResult)),
                 opCode.code, 1)
    ELSE \E leftInt \in {SignedBigIntConversion(left.b, "")} :
         \E rightInt \in {SignedBigIntConversion(right.b, "")} :
         \E e2 \in {FirstErr(<<rightInt.err, leftInt.err>>)} :
           IF e2 # "" THEN Apply(TrapWith(left.s, opCode.Name, e2), opCode.code, 1)
           ELSE Apply(PushOrTrap(left.s, opCode.Name,
                                 BoolToByteArray(Cmp(leftInt.v, rightInt.v) \in expectedResult)),
                      opCode.code, 1)

DoLt ==
  /\ Dispatch(Lt)
  /\ \E opCode \in {OpOf(Lt)} : \E s \in {Charged(opCode)} :
       EvaluateRelationalComp(s, opCode, {-1})

DoGt ==
  /\ Dispatch(Gt)
  /\ \E opCode \in {OpOf(Gt)} : \E s \in {Charged(opCode)} :
       EvaluateRelationalComp(s, opCode, {1})

\* LtEq that accepts only the strictly smaller left operand
DoLtEq_Strict ==
  /\ Dispatch(LtEq)
  /\ \E opCode \in {OpOf(LtEq)} : \E s \in {Charged(opCode)} :
       EvaluateRelationalComp(s, opCode, {-1})

DoLtEq ==
  /\ Dispatch(LtEq)
  /\ \E opCode \in {OpOf(LtEq)} : \E s \in {Charged(opCode)} :
       EvaluateRelationalComp(s, opCode, {-1, 0})

DoGtEq ==
  /\ Dispatch(GtEq)
  /\ \E opCode \in {OpOf(GtEq)} : \E s \in {Charged(opCode)} :
       EvaluateRelationalComp(s, opCode, {0, 1})

\* the value is read as a boolean by its first byte
ByteArrayToBool(b) == b[1] # 0

DoNoOp ==
  /\ Dispatch(NoOp)
  /\ \E opCode \in {OpOf(NoOp)} : \E s \in {Charged(opCode)} :
       \E f1 \in {Fetch(s)} :
         IF f1.err # "" THEN Apply(TrapWith(f1.s, opCode.Name, f1.err), opCode.code, 1)
         ELSE Apply(f1.s, opCode.code, 1)

DoJmp ==
  /\ Dispatch(Jmp)
  /\ \E opCode \in {OpOf(Jmp)} : \E s \in {Charged(opCode)} :
       \E f \in {FetchMany(s, 2)} :
         IF f.err # "" THEN Apply(TrapWith(f.s, opCode.Name, f.err), opCode.code, 1)
         ELSE Apply([f.s EXCEPT !.pc = BytesToNat(f.v)], opCode.code, 1)

\* the cases JmpTrue and JmpFalse of the switch
ExecJmpCond(s, opCode, want) ==
  \E f \in {FetchMany(s, 2)} : \E right \in {PopBytes(f.s, opCode)} :
  \E e \in {FirstErr(<<f.err, right.err>>)} :
    IF e # "" THEN Apply(TrapWith(right.s, opCode.Name, e), opCode.code, 1)
    ELSE IF Len(right.b) = 0 THEN Apply(Panic(right.s), opCode.code, 1)
    ELSE IF ByteArrayToBool(right.b) = want
      THEN Apply([right.s EXCEPT !.pc = ByteArrayToInt(f.v)], opCode.code, 1)
    ELSE Apply(right.s, opCode.code, 1)

DoJmpTrue ==
  /\ Dispatch(JmpTrue)
  /\ \E opCode \in {OpOf(JmpTrue)} : \E s \in {Charged(opCode)} :
       ExecJmpCond(s, opCode, TRUE)

\* JmpFalse that jumps when the popped value is true
DoJmpFalse_JumpsOnTrue ==
  /\ Dispatch(JmpFalse)
  /\ \E opCode \in {OpOf(JmpFalse)} : \E s \in {Charged(opCode)} :
       ExecJmpCond(s, opCode, TRUE)

DoJmpFalse ==
  /\ Dispatch(JmpFalse)
  /\ \E opCode \in {OpOf(JmpFalse)} : \E s \in {Charged(opCode)} :
       ExecJmpCond(s, opCode, FALSE)

\* Frame; callPc, depthBefore, nargs and callOp are history fields: the offset
\* of the calling opcode, the stack depth before it, and its arguments
NewFrame(ra, nret, at, depth, nargs, op) ==
  [returnAddress |-> ra, variables |-> [i \in {} |-> <<>>], nrOfReturnTypes |-> nret,
   evalStackOffset |-> 0, callPc |-> at, depthBefore |-> depth, nargs |-> nargs,
   callOp |-> op]

\* frame.variables[i] = v: the map keeps the slice
SetVar(variables, i, v) ==
  [k \in (DOMAIN variables) \cup {i} |-> IF k = i THEN v ELSE variables[k]]

\* frame.variables[i]: the nil slice when the key is absent
GetVar(variables, i) == IF i \in DOMAIN variables THEN variables[i] ELSE Val(<<>>)

RECURSIVE PopArgs_Ascending(_, _, _, _)
\* the loop that fills the locals from 0 upwards: the value on top of the
\* stack, the last argument pushed, becomes local 0
PopArgs_Ascending(s, opCode, i, variables) ==
  IF i < 0 THEN [err |-> "", variables |-> variables, s |-> s]
  ELSE LET p == PopBytes(s, opCode)
       IN IF p.err # "" THEN [err |-> p.err, variables |-> variables, s |-> p.s]
          ELSE PopArgs_Ascending(p.s, opCode, i - 1,
                                 SetVar(variables, Cardinality(DOMAIN variables),
                                        Slice(p.b, p.ref)))

RECURSIVE PopArgs(_, _, _, _)
\* for i := argsToLoad - 1; i >= 0; i-- { frame.variables[i], err = PopBytes }
PopArgs(s, opCode, i, variables) ==
  IF i < 0 THEN [err |-> "", variables |-> variables, s |-> s]
  ELSE LET p == PopBytes(s, opCode)
       IN IF p.err # "" THEN [err |-> p.err, variables |-> variables, s |-> p.s]
          ELSE PopArgs(p.s, opCode, i - 1, SetVar(variables, i, Slice(p.b, p.ref)))

\* the call that records the depth of the evaluation stack before it pops
\* the arguments
DoCall_OffsetBeforeArgs(s, s0, opCode, label, argsToLoad, nrOfReturnTypes) ==
  \E returnAddress \in {BytesToNat(label)} :
  \E frame \in {NewFrame(s.pc, nrOfReturnTypes, s0.pc - 1, Len(s0.stack), argsToLoad,
                         opCode.code)} :
    IF returnAddress = 0 \/ returnAddress > Len(code)
      THEN Apply(TrapWith(s, opCode.Name, "ReturnAddress out of bounds"), opCode.code, 1)
    ELSE \E a \in {PopArgs(s, opCode, argsToLoad - 1, frame.variables)} :
           IF a.err # "" THEN Apply(TrapWith(a.s, opCode.Name, a.err), opCode.code, 1)
           ELSE Apply([CallStackPush(a.s, [frame EXCEPT !.variables = a.variables,
                                                        !.evalStackOffset = Len(s.stack)])
                         EXCEPT !.pc = returnAddress], opCode.code, 1)

\* the call that refuses the label len(code) too
DoCall_LabelBelowLen(s, s0, opCode, label, argsToLoad, nrOfReturnTypes) ==
  \E returnAddress \in {BytesToNat(label)} :
  \E frame \in {NewFrame(s.pc, nrOfReturnTypes, s0.pc - 1, Len(s0.stack), argsToLoad,
                         opCode.code)} :
    IF returnAddress = 0 \/ returnAddress >= Len(code)
      THEN Apply(TrapWith(s, opCode.Name, "ReturnAddress out of bounds"), opCode.code, 1)
    ELSE \E a \in {PopArgs(s, opCode, argsToLoad - 1, frame.variables)} :
           IF a.err # "" THEN Apply(TrapWith(a.s, opCode.Name, a.err), opCode.code, 1)
           ELSE Apply([CallStackPush(a.s, [frame EXCEPT !.variables = a.variables,
                                                        !.evalStackOffset = Len(a.s.stack)])
                         EXCEPT !.pc = returnAddress], opCode.code, 1)

\* the body shared by Call and by CallTrue once its condition holds; s0 is
\* the state the instruction started in
DoCall(s, s0, opCode, label, argsToLoad, nrOfReturnTypes) ==
  \E returnAddress \in {BytesToNat(label)} :
  \E frame \in {NewFrame(s.pc, nrOfReturnTypes, s0.pc - 1, Len(s0.stack), argsToLoad,
                         opCode.code)} :
    IF returnAddress = 0 \/ returnAddress > Len(code)
      THEN Apply(TrapWith(s, opCode.Name, "ReturnAddress out of bounds"), opCode.code, 1)
    ELSE IF nrOfReturnTypes < 0
      THEN Apply(TrapWith(s, opCode.Name, "Number of return types cannot be negative"),
                 opCode.code, 1)
    ELSE \E a \in {PopArgs(s, opCode, argsToLoad - 1, frame.variables)} :
           IF a.err # "" THEN Apply(TrapWith(a.s, opCode.Name, a.err), opCode.code, 1)
           ELSE Apply([CallStackPush(a.s, [frame EXCEPT !.variables = a.variables,
                                                        !.evalStackOffset = Len(a.s.stack)])
                         EXCEPT !.pc = returnAddress], opCode.code, 1)

DoCallOp ==
  /\ Dispatch(Call)
  /\ \E opCode \in {OpOf(Call)} : \E s \in {Charged(opCode)} :
       \E f1 \in {FetchMany(s, 2)} : \E f2 \in {Fetch(f1.s)} : \E f3 \in {Fetch(f2.s)} :
       \E e \in {FirstErr(<<f1.err, f2.err, f3.err>>)} :
         IF e # "" THEN Apply(TrapWith(f3.s, opCode.Name, e), opCode.code, 1)
         ELSE DoCall(f3.s, s, opCode, f1.v, f2.v, f3.v)

\* CallTrue that validates its label before it looks at the condition
DoCallTrue_ValidatesFirst ==
  /\ Dispatch(CallTrue)
  /\ \E opCode \in {OpOf(CallTrue)} : \E s \in {Charged(opCode)} :
       \E f1 \in {FetchMany(s, 2)} : \E f2 \in {Fetch(f1.s)} : \E f3 \in {Fetch(f2.s)} :
       \E right \in {PopBytes(f3.s, opCode)} :
       \E e \in {FirstErr(<<f1.err, f2.err, f3.err, right.err>>)} :
         IF e # "" THEN Apply(TrapWith(right.s, opCode.Name, e), opCode.code, 1)
         ELSE IF Len(right.b) = 0 THEN Apply(Panic(right.s), opCode.code, 1)
         ELSE IF BytesToNat(f1.v) = 0 \/ BytesToNat(f1.v) > Len(code)
           THEN Apply(TrapWith(right.s, opCode.Name, "ReturnAddress out of bounds"),
                      opCode.code, 1)
         ELSE IF ByteArrayToBool(right.b) THEN DoCall(right.s, s, opCode, f1.v, f2.v, f3.v)
         ELSE Apply(right.s, opCode.code, 1)

DoCallTrue ==
  /\ Dispatch(CallTrue)
  /\ \E opCode \in {OpOf(CallTrue)} : \E s \in {Charged(opCode)} :
       \E f1 \in {FetchMany(s, 2)} : \E f2 \in {Fetch(f1.s)} : \E f3 \in {Fetch(f2.s)} :
       \E right \in {PopBytes(f3.s, opCode)} :
       \E e \in {FirstErr(<<f1.err, f2.err, f3.err, right.err>>)} :
         IF e # "" THEN Apply(TrapWith(right.s, opCode.Name, e), opCode.code, 1)
         ELSE IF Len(right.b) = 0 THEN Apply(Panic(right.s), opCode.code, 1)
         ELSE IF ByteArrayToBool(right.b) THEN DoCall(right.s, s, opCode, f1.v, f2.v, f3.v)
         ELSE Apply(right.s, opCode.code, 1)

DoCallExt ==
  /\ Dispatch(CallExt)
  /\ \E opCode \in {OpOf(CallExt)} : \E s \in {Charged(opCode)} :
       \E f1 \in {FetchMany(s, 32)} : \E f2 \in {FetchMany(f1.s, 4)} : \E f3 \in {Fetch(f2.s)} :
       \E e \in {FirstErr(<<f1.err, f2.err, f3.err>>)} :
         IF e # "" THEN Apply(TrapWith(f3.s, opCode.Name, e), opCode.code, 1)
         ELSE Apply(f3.s, opCode.code, 1)

\* Ret that removes the frame before it compares the number of returned values
DoRet_PopsFirst ==
  /\ Dispatch(Ret)
  /\ \E opCode \in {OpOf(Ret)} : \E s \in {Charged(opCode)} :
       \E t \in {CallStackPeek(s)} :
         IF t.err # ""
           THEN Apply(TrapWith(PushDiag(s, opCode.Name, t.err, -1), opCode.Name, t.err),
                      opCode.code, 1)
         ELSE \E callstackTos \in {s.cs[t.i]} : \E q \in {CallStackPop(s).s} :
                IF Len(s.stack) - callstackTos.evalStackOffset # callstackTos.nrOfReturnTypes
                  THEN Apply(TrapWith(q, opCode.Name, "Number of returned elements does not match."),
                             opCode.code, 1)
                ELSE Apply([q EXCEPT !.pc = callstackTos.returnAddress], opCode.code, 1)

DoRet ==
  /\ Dispatch(Ret)
  /\ \E opCode \in {OpOf(Ret)} : \E s \in {Charged(opCode)} :
       \E t \in {CallStackPeek(s)} :
         IF t.err # ""
           THEN Apply(TrapWith(PushDiag(s, opCode.Name, t.err, -1), opCode.Name, t.err),
                      opCode.code, 1)
         ELSE \E callstackTos \in {s.cs[t.i]} :
                IF Len(s.stack) - callstackTos.evalStackOffset # callstackTos.nrOfReturnTypes
                  THEN Apply(TrapWith(s, opCode.Name, "Number of returned elements does not match."),
                             opCode.code, 1)
                ELSE Apply([CallStackPop(s).s EXCEPT !.pc = callstackTos.returnAddress],
                           opCode.code, 1)

DoSize ==
  /\ Dispatch(Size)
  /\ \E opCode \in {OpOf(Size)} : \E s \in {Charged(opCode)} :
       \E p \in {PopBytes(s, opCode)} :
         IF p.err # "" THEN Apply(TrapWith(p.s, opCode.Name, p.err), opCode.code, 1)
         ELSE Apply(PushOrTrap(p.s, opCode.Name, UInt64ToByteArray(Len(p.b))), opCode.code, 1)

\* Context.SetContractVariable
SetContractVariable(cv, index, value) ==
  IF index < Len(cv)
  THEN [err |-> "", cv |-> [cv EXCEPT ![index + 1] = value]]
  ELSE [err |-> "Index out of bounds", cv |-> cv]

\* Context.GetContractVariable
GetContractVariable(cv, index) ==
  IF index < Len(cv)
  THEN [err |-> "", v |-> cv[index + 1]]
  ELSE [err |-> "Index out of bounds", v |-> <<>>]

DoStoreSt ==
  /\ Dispatch(StoreSt)
  /\ \E opCode \in {OpOf(StoreSt)} : \E s \in {Charged(opCode)} :
       \E f1 \in {Fetch(s)} : \E p \in {PopBytes(f1.s, opCode)} :
       \E e \in {FirstErr(<<f1.err, p.err>>)} :
         IF e # "" THEN Apply(TrapWith(p.s, opCode.Name, e), opCode.code, 1)
         ELSE \E w \in {SetContractVariable(s.cv, f1.v, p.b)} :
                IF w.err # "" THEN Apply(TrapWith(p.s, opCode.Name, w.err), opCode.code, 1)
                ELSE Apply([p.s EXCEPT !.cv = w.cv], opCode.code, 1)

DoStoreLoc ==
  /\ Dispatch(StoreLoc)
  /\ \E opCode \in {OpOf(StoreLoc)} : \E s \in {Charged(opCode)} :
       \E f1 \in {Fetch(s)} : \E p \in {PopBytes(f1.s, opCode)} :
       \E e \in {FirstErr(<<f1.err, p.err>>)} :
         IF e # "" THEN Apply(TrapWith(p.s, opCode.Name, e), opCode.code, 1)
         ELSE \E t \in {CallStackPeek(p.s)} :
                IF t.err # "" THEN Apply(TrapWith(p.s, opCode.Name, t.err), opCode.code, 1)
                ELSE Apply([p.s EXCEPT !.cs[t.i].variables = SetVar(@, f1.v, Slice(p.b, p.ref))],
                           opCode.code, 1)

DoLoadSt ==
  /\ Dispatch(LoadSt)
  /\ \E opCode \in {OpOf(LoadSt)} : \E s \in {Charged(opCode)} :
       \E f1 \in {Fetch(s)} :
         IF f1.err # "" THEN Apply(TrapWith(f1.s, opCode.Name, f1.err), opCode.code, 1)
         ELSE \E g \in {GetContractVariable(s.cv, f1.v)} :
                IF g.err # "" THEN Apply(TrapWith(f1.s, opCode.Name, g.err), opCode.code, 1)
                ELSE Apply(PushOrTrap(f1.s, opCode.Name, g.v), opCode.code, 1)

DoLoadLoc ==
  /\ Dispatch(LoadLoc)
  /\ \E opCode \in {OpOf(LoadLoc)} : \E s \in {Charged(opCode)} :
       \E f1 \in {Fetch(s)} : \E t \in {CallStackPeek(f1.s)} :
       \E e \in {FirstErr(<<f1.err, t.err>>)} :
         IF e # "" THEN Apply(TrapWith(f1.s, opCode.Name, e), opCode.code, 1)
         ELSE Apply(PushValOrTrap(f1.s, opCode.Name, GetVar(f1.s.cs[t.i].variables, f1.v)),
                    opCode.code, 1)

\* the values the host's context returns for the account and the transaction
CtxAddress == Zeros(63) \o <<1>>

CtxIssuer == Zeros(31) \o <<3>>

CtxSender == Zeros(31) \o <<4>>

CtxBalance == 44

CtxAmount == 7

DoAddress ==
  /\ Dispatch(Address)
  /\ \E opCode \in {OpOf(Address)} : \E s \in {Charged(opCode)} :
       Apply(PushOrTrap(s, opCode.Name, CtxAddress), opCode.code, 1)

DoIssuer ==
  /\ Dispatch(Issuer)
  /\ \E opCode \in {OpOf(Issuer)} : \E s \in {Charged(opCode)} :
       Apply(PushOrTrap(s, opCode.Name, CtxIssuer), opCode.code, 1)

DoBalance ==
  /\ Dispatch(Balance)
  /\ \E opCode \in {OpOf(Balance)} : \E s \in {Charged(opCode)} :
       Apply(PushOrTrap(s, opCode.Name, UInt64ToByteArray(CtxBalance)), opCode.code, 1)

DoCaller ==
  /\ Dispatch(Caller)
  /\ \E opCode \in {OpOf(Caller)} : \E s \in {Charged(opCode)} :
       Apply(PushOrTrap(s, opCode.Name, CtxSender), opCode.code, 1)

DoCallVal ==
  /\ Dispatch(CallVal)
  /\ \E opCode \in {OpOf(CallVal)} : \E s \in {Charged(opCode)} :
       Apply(PushOrTrap(s, opCode.Name, UInt64ToByteArray(CtxAmount)), opCode.code, 1)

RECURSIVE CallDataLoop_WithLength(_, _, _, _, _)
\* the loop that pushes each parameter together with its length byte
CallDataLoop_WithLength(s, loc, td, i, base) ==
  IF i >= Len(td) THEN s
  ELSE IF Len(td) - i - 1 < td[i + 1] THEN TrapWith(s, loc, "Index out of bounds")
  ELSE LET r == PushValOrTrap(s, loc, Slice(SubSeq(td, i + 1, i + td[i + 1] + 1), base + i))
       IN IF r.out # "run" THEN r
          ELSE CallDataLoop_WithLength(r, loc, td, i + td[i + 1] + 1, base)

RECURSIVE CallDataLoop(_, _, _, _, _)
\* for i := 0; i < len(td); i++ { ...; i += int(td[i]) }; td is the array
\* GetTransactionData returned, at the address base
CallDataLoop(s, loc, td, i, base) ==
  IF i >= Len(td) THEN s
  ELSE IF Len(td) - i - 1 < td[i + 1] THEN TrapWith(s, loc, "Index out of bounds")
  ELSE LET r == PushValOrTrap(s, loc, Slice(SubSeq(td, i + 2, i + td[i + 1] + 1),
                                            IF td[i + 1] = 0 THEN -1 ELSE base + i + 1))
       IN IF r.out # "run" THEN r ELSE CallDataLoop(r, loc, td, i + td[i + 1] + 1, base)

DoCallData ==
  /\ Dispatch(CallData)
  /\ \E opCode \in {OpOf(CallData)} : \E s \in {Charged(opCode)} :
       Apply(CallDataLoop([s EXCEPT !.heap = @ + Len(ctxData)], opCode.Name, ctxData, 0, s.heap),
             opCode.code, 1)

\* 2 bytes, big-endian
UInt16ToByteArray(n) == << n \div 256, n % 256 >>

\* newStruct: an Array (tag 0x02, size, then per element its length and
\* bytes) of size elements, each the single byte 0
NewStruct(size) ==
  <<2>> \o UInt16ToByteArray(size) \o [i \in 1..(3 * size) |-> IF i % 3 = 2 THEN 1 ELSE 0]

DoNewStr ==
  /\ Dispatch(NewStr)
  /\ \E opCode \in {OpOf(NewStr)} : \E s \in {Charged(opCode)} :
       \E f \in {FetchMany(s, 2)} :
         IF f.err # "" THEN Apply(TrapWith(f.s, opCode.Name, f.err), opCode.code, 1)
         ELSE \E r \in {StackPush(f.s, Val(NewStruct(BytesToNat(f.v))))} :
                IF r.err # "" THEN Apply(Fail(f.s), opCode.code, 1)
                ELSE Apply(r.s, opCode.code, 1)

(* -------------------------------- maps -------------------------------- *)
(* A Map is the byte blob [0x01][size, 2 bytes big-endian] followed, for  *)
(* each entry, by the length of the key (2 bytes big-endian), the key,    *)
(* the length of the value and the value.                                 *)

RECURSIVE ParseEntries(_, _)
\* the n entries the bytes b consist of
ParseEntries(b, n) ==
  IF n = 0 THEN [err |-> IF Len(b) = 0 THEN "" ELSE "not a valid map", entries |-> <<>>]
  ELSE IF Len(b) < 2 \/ Len(b) < 4 + BytesToNat(SubSeq(b, 1, 2))
    THEN [err |-> "not a valid map", entries |-> <<>>]
  ELSE LET kl == BytesToNat(SubSeq(b, 1, 2))
           vl == BytesToNat(SubSeq(b, 3 + kl, 4 + kl))
       IN IF Len(b) < 4 + kl + vl THEN [err |-> "not a valid map", entries |-> <<>>]
          ELSE LET r == ParseEntries(SubSeq(b, 5 + kl + vl, Len(b)), n - 1)
               IN [err |-> r.err,
                   entries |-> IF r.err # "" THEN <<>>
                               ELSE << [k |-> SubSeq(b, 3, 2 + kl),
                                        v |-> SubSeq(b, 5 + kl, 4 + kl + vl)] >> \o r.entries]

RECURSIVE EntryBytes(_)
\* the entries, each key and each value after its length
EntryBytes(entries) ==
  IF Len(entries) = 0 THEN <<>>
  ELSE UInt16ToByteArray(Len(entries[1].k)) \o entries[1].k
         \o UInt16ToByteArray(Len(entries[1].v)) \o entries[1].v \o EntryBytes(Tail(entries))

\* the blob of the map of the entries
MapBytes(entries) == <<1>> \o UInt16ToByteArray(Len(entries)) \o EntryBytes(entries)

\* MapFromByteArray: the blob has to match the layout
MapFromByteArray(m) ==
  IF Len(m) < 3 \/ m[1] # 1 THEN [err |-> "not a valid map", entries |-> <<>>]
  ELSE ParseEntries(SubSeq(m, 4, Len(m)), BytesToNat(SubSeq(m, 2, 3)))

\* Map.MapContainsKey: an entry has a key byte-wise equal to k
MapContainsKey(m, k) == \E i \in 1..Len(m.entries) : m.entries[i].k = k

\* the position of the first such entry
KeyPosition(m, k) ==
  CHOOSE i \in 1..Len(m.entries) :
    m.entries[i].k = k /\ \A j \in 1..(i - 1) : m.entries[j].k # k

\* Map.GetVal: fails when the key is absent
MapGetValue(m, k) ==
  IF ~MapContainsKey(m, k) THEN [err |-> "key not found", v |-> <<>>]
  ELSE [err |-> "", v |-> m.entries[KeyPosition(m, k)].v]

\* Map.SetVal: the key has to be present
MapSetValue(m, k, v) ==
  IF ~MapContainsKey(m, k) THEN [err |-> "key not found", entries |-> m.entries]
  ELSE [err |-> "", entries |-> [m.entries EXCEPT ![KeyPosition(m, k)].v = v]]

\* Map.Append: a new last entry
MapAppend(m, k, v) ==
  IF Len(k) > UInt16Max \/ Len(v) > UInt16Max \/ Len(m.entries) >= UInt16Max
  THEN [err |-> "not a valid map", entries |-> m.entries]
  ELSE [err |-> "", entries |-> Append(m.entries, [k |-> k, v |-> v])]

\* Map.Remove: fails when the key is absent; the other entries keep their order
MapRemoveKey(m, k) ==
  IF ~MapContainsKey(m, k) THEN [err |-> "key not found", entries |-> m.entries]
  ELSE [err |-> "",
        entries |-> SubSeq(m.entries, 1, KeyPosition(m, k) - 1)
                      \o SubSeq(m.entries, KeyPosition(m, k) + 1, Len(m.entries))]

DoNewMap ==
  /\ Dispatch(NewMap)
  /\ \E opCode \in {OpOf(NewMap)} : \E s \in {Charged(opCode)} :
       Apply(PushOrTrap(s, opCode.Name, MapBytes(<<>>)), opCode.code, 1)

DoMapHasKey ==
  /\ Dispatch(MapHasKey)
  /\ \E opCode \in {OpOf(MapHasKey)} : \E s \in {Charged(opCode)} :
       \E mba \in {PopBytes(s, opCode)} : \E m \in {MapFromByteArray(mba.b)} :
         IF mba.err # "" THEN Apply(TrapWith(mba.s, opCode.Name, mba.err), opCode.code, 1)
         ELSE IF m.err # "" THEN Apply(TrapWith(mba.s, opCode.Name, m.err), opCode.code, 1)
         ELSE \E k \in {PopBytes(mba.s, opCode)} :
           IF k.err # "" THEN Apply(TrapWith(k.s, opCode.Name, k.err), opCode.code, 1)
           ELSE Apply(StackPush(k.s, Val(BoolToByteArray(MapContainsKey(m, k.b)))).s,
                      opCode.code, 1)

DoMapGetVal ==
  /\ Dispatch(MapGetVal)
  /\ \E opCode \in {OpOf(MapGetVal)} : \E s \in {Charged(opCode)} :
       \E mapAsByteArray \in {PopBytes(s, opCode)} :
         IF mapAsByteArray.err # ""
           THEN Apply(TrapWith(mapAsByteArray.s, opCode.Name, mapAsByteArray.err), opCode.code, 1)
         ELSE \E k \in {PopBytes(mapAsByteArray.s, opCode)} :
              \E m \in {MapFromByteArray(mapAsByteArray.b)} :
           IF k.err # "" THEN Apply(TrapWith(k.s, opCode.Name, k.err), opCode.code, 1)
           ELSE IF m.err # "" THEN Apply(TrapWith(k.s, opCode.Name, m.err), opCode.code, 1)
           ELSE \E v \in {MapGetValue(m, k.b)} :
             IF v.err # "" THEN Apply(TrapWith(k.s, opCode.Name, v.err), opCode.code, 1)
             ELSE Apply(PushOrTrap(k.s, opCode.Name, v.v), opCode.code, 1)

\* MapSetVal that appends the entry whether or not the key is present
DoMapSetVal_AlwaysAppend ==
  /\ Dispatch(MapSetVal)
  /\ \E opCode \in {OpOf(MapSetVal)} : \E s \in {Charged(opCode)} :
       \E mapAsByteArray \in {PopBytes(s, opCode)} :
       \E m \in {MapFromByteArray(mapAsByteArray.b)} :
         IF mapAsByteArray.err # ""
           THEN Apply(TrapWith(mapAsByteArray.s, opCode.Name, mapAsByteArray.err), opCode.code, 1)
         ELSE IF m.err # "" THEN Apply(TrapWith(mapAsByteArray.s, opCode.Name, m.err), opCode.code, 1)
         ELSE \E k \in {PopBytes(mapAsByteArray.s, opCode)} :
           IF k.err # "" THEN Apply(TrapWith(k.s, opCode.Name, k.err), opCode.code, 1)
           ELSE \E v \in {PopBytes(k.s, opCode)} :
             IF v.err # "" THEN Apply(TrapWith(v.s, opCode.Name, v.err), opCode.code, 1)
             ELSE \E r \in {MapAppend(m, k.b, v.b)} :
               IF r.err # "" THEN Apply(TrapWith(v.s, opCode.Name, r.err), opCode.code, 1)
               ELSE Apply(PushOrTrap(v.s, opCode.Name, MapBytes(r.entries)), opCode.code, 1)

DoMapSetVal ==
  /\ Dispatch(MapSetVal)
  /\ \E opCode \in {OpOf(MapSetVal)} : \E s \in {Charged(opCode)} :
       \E mapAsByteArray \in {PopBytes(s, opCode)} :
       \E m \in {MapFromByteArray(mapAsByteArray.b)} :
         IF mapAsByteArray.err # ""
           THEN Apply(TrapWith(mapAsByteArray.s, opCode.Name, mapAsByteArray.err), opCode.code, 1)
         ELSE IF m.err # "" THEN Apply(TrapWith(mapAsByteArray.s, opCode.Name, m.err), opCode.code, 1)
         ELSE \E k \in {PopBytes(mapAsByteArray.s, opCode)} :
           IF k.err # "" THEN Apply(TrapWith(k.s, opCode.Name, k.err), opCode.code, 1)
           ELSE \E v \in {PopBytes(k.s, opCode)} :
             IF v.err # "" THEN Apply(TrapWith(v.s, opCode.Name, v.err), opCode.code, 1)
             ELSE \E r \in {IF MapContainsKey(m, k.b) THEN MapSetValue(m, k.b, v.b)
                                                        ELSE MapAppend(m, k.b, v.b)} :
               IF r.err # "" THEN Apply(TrapWith(v.s, opCode.Name, r.err), opCode.code, 1)
               ELSE Apply(PushOrTrap(v.s, opCode.Name, MapBytes(r.entries)), opCode.code, 1)

\* MapRemove that fills the place of the removed entry with the last entry
DoMapRemove_MovesLast ==
  /\ Dispatch(MapRemove)
  /\ \E opCode \in {OpOf(MapRemove)} : \E s \in {Charged(opCode)} :
       \E mapAsByteArray \in {PopBytes(s, opCode)} :
         IF mapAsByteArray.err # ""
           THEN Apply(TrapWith(mapAsByteArray.s, opCode.Name, mapAsByteArray.err), opCode.code, 1)
         ELSE \E k \in {PopBytes(mapAsByteArray.s, opCode)} :
              \E m \in {MapFromByteArray(mapAsByteArray.b)} :
           IF k.err # "" THEN Apply(TrapWith(k.s, opCode.Name, k.err), opCode.code, 1)
           ELSE IF m.err # "" THEN Apply(TrapWith(k.s, opCode.Name, m.err), opCode.code, 1)
           ELSE IF ~MapContainsKey(m, k.b)
             THEN Apply(TrapWith(k.s, opCode.Name, "key not found"), opCode.code, 1)
           ELSE \E i \in {KeyPosition(m, k.b)} : \E n \in {Len(m.entries)} :
             Apply(PushOrTrap(k.s, opCode.Name,
                              MapBytes(SubSeq([m.entries EXCEPT ![i] = m.entries[n]], 1, n - 1))),
                   opCode.code, 1)

DoMapRemove ==
  /\ Dispatch(MapRemove)
  /\ \E opCode \in {OpOf(MapRemove)} : \E s \in {Charged(opCode)} :
       \E mapAsByteArray \in {PopBytes(s, opCode)} :
         IF mapAsByteArray.err # ""
           THEN Apply(TrapWith(mapAsByteArray.s, opCode.Name, mapAsByteArray.err), opCode.code, 1)
         ELSE \E k \in {PopBytes(mapAsByteArray.s, opCode)} :
              \E m \in {MapFromByteArray(mapAsByteArray.b)} :
           IF k.err # "" THEN Apply(TrapWith(k.s, opCode.Name, k.err), opCode.code, 1)
           ELSE IF m.err # "" THEN Apply(TrapWith(k.s, opCode.Name, m.err), opCode.code, 1)
           ELSE \E r \in {MapRemoveKey(m, k.b)} :
             IF r.err # "" THEN Apply(TrapWith(k.s, opCode.Name, r.err), opCode.code, 1)
             ELSE Apply(PushOrTrap(k.s, opCode.Name, MapBytes(r.entries)), opCode.code, 1)

(* ------------------------------- arrays ------------------------------- *)
(* An Array is the byte blob [0x02][size, 2 bytes big-endian] followed,   *)
(* for each element, by its length (2 bytes big-endian) and its bytes.    *)

RECURSIVE ParseElements(_, _)
\* the n length-prefixed elements the bytes b consist of
ParseElements(b, n) ==
  IF n = 0 THEN [err |-> IF Len(b) = 0 THEN "" ELSE "not a valid array", elems |-> <<>>]
  ELSE IF Len(b) < 2 \/ Len(b) < 2 + BytesToNat(SubSeq(b, 1, 2))
    THEN [err |-> "not a valid array", elems |-> <<>>]
  ELSE LET l == BytesToNat(SubSeq(b, 1, 2))
           r == ParseElements(SubSeq(b, 3 + l, Len(b)), n - 1)
       IN [err |-> r.err,
           elems |-> IF r.err # "" THEN <<>> ELSE << SubSeq(b, 3, 2 + l) >> \o r.elems]

RECURSIVE ElementBytes(_)
\* the elements, each after its length
ElementBytes(elems) ==
  IF Len(elems) = 0 THEN <<>>
  ELSE UInt16ToByteArray(Len(elems[1])) \o elems[1] \o ElementBytes(Tail(elems))

\* the blob of the array of the elements elems
ArrayBytes(elems) == <<2>> \o UInt16ToByteArray(Len(elems)) \o ElementBytes(elems)

\* ArrayFromByteArray: the blob has to match the layout
ArrayFromByteArray(arr) ==
  IF Len(arr) < 3 \/ arr[1] # 2 THEN [err |-> "not a valid array", elems |-> <<>>]
  ELSE ParseElements(SubSeq(arr, 4, Len(arr)), BytesToNat(SubSeq(arr, 2, 3)))

\* Array.GetSize
ArrayGetSize(a) == Len(a.elems)

\* Array.Append
ArrayAppend(a, element) ==
  IF Len(element) > UInt16Max \/ Len(a.elems) >= UInt16Max
  THEN [err |-> "not a valid array", elems |-> a.elems]
  ELSE [err |-> "", elems |-> Append(a.elems, element)]

\* Array.Insert: writes the element at the position index; the bytes of the
\* successors move, the size stays (TestVM_Exec_ArrInsert)
ArrayInsert(a, index, element) ==
  IF index >= Len(a.elems) THEN [err |-> "Index out of bounds", elems |-> a.elems]
  ELSE [err |-> "", elems |-> [a.elems EXCEPT ![index + 1] = element]]

\* Array.Remove: the successors move one position to the left
ArrayRemove(a, index) ==
  IF index >= Len(a.elems) THEN [err |-> "Index out of bounds", elems |-> a.elems]
  ELSE [err |-> "",
        elems |-> SubSeq(a.elems, 1, index) \o SubSeq(a.elems, index + 2, Len(a.elems))]

\* Array.At
ArrayAt(a, index) ==
  IF index >= Len(a.elems) THEN [err |-> "Index out of bounds", v |-> <<>>]
  ELSE [err |-> "", v |-> a.elems[index + 1]]

DoNewArr ==
  /\ Dispatch(NewArr)
  /\ \E opCode \in {OpOf(NewArr)} : \E s \in {Charged(opCode)} :
       \E length \in {PopUnsignedBigInt(s, opCode)} :
         IF length.err # "" THEN Apply(TrapWith(length.s, opCode.Name, length.err), opCode.code, 1)
         ELSE Apply(PushOrTrap(length.s, opCode.Name,
                               ArrayBytes([i \in 1..length.v |-> <<0>>])), opCode.code, 1)

\* ArrAppend that pops the value before the array
DoArrAppend_ValueFirst ==
  /\ Dispatch(ArrAppend)
  /\ \E opCode \in {OpOf(ArrAppend)} : \E s \in {Charged(opCode)} :
       \E v \in {PopBytes(s, opCode)} : \E a \in {PopBytes(v.s, opCode)} :
       \E e \in {FirstErr(<<v.err, a.err>>)} : \E arr \in {ArrayFromByteArray(a.b)} :
         IF e # "" THEN Apply(TrapWith(a.s, opCode.Name, e), opCode.code, 1)
         ELSE IF arr.err # "" THEN Apply(TrapWith(a.s, opCode.Name, arr.err), opCode.code, 1)
         ELSE Apply(PushOrTrap(a.s, opCode.Name, ArrayBytes(ArrayAppend(arr, v.b).elems)),
                    opCode.code, 1)

DoArrAppend ==
  /\ Dispatch(ArrAppend)
  /\ \E opCode \in {OpOf(ArrAppend)} : \E s \in {Charged(opCode)} :
       \E a \in {PopBytes(s, opCode)} : \E v \in {PopBytes(a.s, opCode)} :
       \E e \in {FirstErr(<<v.err, a.err>>)} : \E arr \in {ArrayFromByteArray(a.b)} :
         IF e # "" THEN Apply(TrapWith(v.s, opCode.Name, e), opCode.code, 1)
         ELSE IF arr.err # "" THEN Apply(TrapWith(v.s, opCode.Name, arr.err), opCode.code, 1)
         ELSE IF ArrayAppend(arr, v.b).err # ""
           THEN Apply(TrapWith(v.s, opCode.Name, "Invalid argument size of ARRAPPEND"),
                      opCode.code, 1)
         ELSE Apply(PushOrTrap(v.s, opCode.Name, ArrayBytes(ArrayAppend(arr, v.b).elems)),
                    opCode.code, 1)

DoArrInsert ==
  /\ Dispatch(ArrInsert)
  /\ \E opCode \in {OpOf(ArrInsert)} : \E s \in {Charged(opCode)} :
       \E a \in {PopBytes(s, opCode)} :
         IF a.err # "" THEN Apply(TrapWith(a.s, opCode.Name, a.err), opCode.code, 1)
         ELSE \E i \in {PopUnsignedBigInt(a.s, opCode)} :
           IF i.err # "" THEN Apply(TrapWith(i.s, opCode.Name, i.err), opCode.code, 1)
           ELSE \E element \in {PopBytes(i.s, opCode)} :
             \E arr \in {ArrayFromByteArray(a.b)} : \E index \in {BigIntToUInt16(i.v)} :
               IF element.err # ""
                 THEN Apply(TrapWith(element.s, opCode.Name, element.err), opCode.code, 1)
               ELSE IF arr.err # ""
                 THEN Apply(TrapWith(element.s, opCode.Name, arr.err), opCode.code, 1)
               ELSE IF index.err # ""
                 THEN Apply(TrapWith(element.s, opCode.Name, index.err), opCode.code, 1)
               ELSE IF index.v >= ArrayGetSize(arr)
                 THEN Apply(TrapWith(element.s, opCode.Name, "Index out of bounds"),
                            opCode.code, 1)
               ELSE \E r \in {ArrayInsert(arr, index.v, element.b)} :
                 IF r.err # "" THEN Apply(TrapWith(element.s, opCode.Name, r.err), opCode.code, 1)
                 ELSE Apply(PushOrTrap(element.s, opCode.Name, ArrayBytes(r.elems)),
                            opCode.code, 1)

\* the cases ArrRemove and ArrAt up to the use of the array: the array and
\* the index are popped and converted
PopArrayAndIndex(s, opCode) ==
  LET a == PopBytes(s, opCode)
      i == PopUnsignedBigInt(a.s, opCode)
      index == BigIntToUInt16(i.v)
      arr == ArrayFromByteArray(a.b)
  IN IF a.err # "" THEN [err |-> a.err, s |-> a.s, arr |-> arr, index |-> 0]
     ELSE IF i.err # "" THEN [err |-> i.err, s |-> i.s, arr |-> arr, index |-> 0]
     ELSE IF index.err # "" THEN [err |-> index.err, s |-> i.s, arr |-> arr, index |-> 0]
     ELSE [err |-> arr.err, s |-> i.s, arr |-> arr, index |-> index.v]

DoArrRemove ==
  /\ Dispatch(ArrRemove)
  /\ \E opCode \in {OpOf(ArrRemove)} : \E s \in {Charged(opCode)} :
       \E p \in {PopArrayAndIndex(s, opCode)} :
         IF p.err # "" THEN Apply(TrapWith(p.s, opCode.Name, p.err), opCode.code, 1)
         ELSE \E r \in {ArrayRemove(p.arr, p.index)} :
           IF r.err # "" THEN Apply(TrapWith(p.s, opCode.Name, r.err), opCode.code, 1)
           ELSE Apply(PushOrTrap(p.s, opCode.Name, ArrayBytes(r.elems)), opCode.code, 1)

\* ArrAt that pushes what Array.At returned without looking at its error
DoArrAt_IgnoresError ==
  /\ Dispatch(ArrAt)
  /\ \E opCode \in {OpOf(ArrAt)} : \E s \in {Charged(opCode)} :
       \E p \in {PopArrayAndIndex(s, opCode)} :
         IF p.err # "" THEN Apply(TrapWith(p.s, opCode.Name, p.err), opCode.code, 1)
         ELSE Apply(PushOrTrap(p.s, opCode.Name, ArrayAt(p.arr, p.index).v), opCode.code, 1)

DoArrAt ==
  /\ Dispatch(ArrAt)
  /\ \E opCode \in {OpOf(ArrAt)} : \E s \in {Charged(opCode)} :
       \E p \in {PopArrayAndIndex(s, opCode)} :
         IF p.err # "" THEN Apply(TrapWith(p.s, opCode.Name, p.err), opCode.code, 1)
         ELSE \E element \in {ArrayAt(p.arr, p.index)} :
           IF element.err # "" THEN Apply(TrapWith(p.s, opCode.Name, element.err), opCode.code, 1)
           ELSE Apply(PushOrTrap(p.s, opCode.Name, element.v), opCode.code, 1)

DoArrLen ==
  /\ Dispatch(ArrLen)
  /\ \E opCode \in {OpOf(ArrLen)} : \E s \in {Charged(opCode)} :
       \E a \in {PopBytes(s, opCode)} : \E arr \in {ArrayFromByteArray(a.b)} :
         IF a.err # "" THEN Apply(TrapWith(a.s, opCode.Name, a.err), opCode.code, 1)
         ELSE IF arr.err # "" THEN Apply(TrapWith(a.s, opCode.Name, arr.err), opCode.code, 1)
         ELSE Apply(PushOrTrap(a.s, opCode.Name,
                               SignedByteArrayConversion(ArrayGetSize(arr))), opCode.code, 1)

(* ------------------------------- structs ------------------------------ *)

\* 2 bytes, big-endian, to uint16
ByteArrayToUI16(b) == BytesToNat(b)

\* structFromByteArray
StructFromByteArray(arr) == ArrayFromByteArray(arr)

\* Struct.loadField
LoadField(str, index) == ArrayAt(str, index)

\* storeField that removes and appends whatever the index
StoreField_RemoveAppend(str, index, element) ==
  IF index >= ArrayGetSize(str) THEN [err |-> "index out of bounds", elems |-> str.elems]
  ELSE ArrayAppend(ArrayRemove(str, index), element)

\* Struct.storeField: the last field is removed and appended, another one
\* is written by Array.Insert
StoreField(str, index, element) ==
  LET size == ArrayGetSize(str)
  IN IF index >= size THEN [err |-> "index out of bounds", elems |-> str.elems]
     ELSE IF size = index + 1
       THEN LET r == ArrayRemove(str, index)
            IN IF r.err # "" THEN r ELSE ArrayAppend(r, element)
     ELSE ArrayInsert(str, index, element)

DoStoreFld ==
  /\ Dispatch(StoreFld)
  /\ \E opCode \in {OpOf(StoreFld)} : \E s \in {Charged(opCode)} :
       \E indexBytes \in {FetchMany(s, 2)} : \E element \in {PopBytes(indexBytes.s, opCode)} :
       \E structBytes \in {PopBytes(element.s, opCode)} :
       \E e \in {FirstErr(<<structBytes.err, indexBytes.err, element.err>>)} :
       \E str \in {StructFromByteArray(structBytes.b)} :
         IF e # "" THEN Apply(TrapWith(structBytes.s, opCode.Name, e), opCode.code, 1)
         ELSE IF str.err # "" THEN Apply(TrapWith(structBytes.s, opCode.Name, str.err), opCode.code, 1)
         ELSE \E r \in {StoreField(str, ByteArrayToUI16(indexBytes.v), element.b)} :
           IF r.err # "" THEN Apply(TrapWith(structBytes.s, opCode.Name, r.err), opCode.code, 1)
           ELSE \E q \in {StackPush(structBytes.s, Val(ArrayBytes(r.elems)))} :
             IF q.err # "" THEN Apply(Fail(structBytes.s), opCode.code, 1)
             ELSE Apply(q.s, opCode.code, 1)

DoLoadFld ==
  /\ Dispatch(LoadFld)
  /\ \E opCode \in {OpOf(LoadFld)} : \E s \in {Charged(opCode)} :
       \E indexBytes \in {FetchMany(s, 2)} : \E structBytes \in {PopBytes(indexBytes.s, opCode)} :
       \E e \in {FirstErr(<<structBytes.err, indexBytes.err>>)} :
       \E str \in {StructFromByteArray(structBytes.b)} :
         IF e # "" THEN Apply(TrapWith(structBytes.s, opCode.Name, e), opCode.code, 1)
         ELSE IF str.err # "" THEN Apply(TrapWith(structBytes.s, opCode.Name, str.err), opCode.code, 1)
         ELSE \E element \in {LoadField(str, ByteArrayToUI16(indexBytes.v))} :
           IF element.err # ""
             THEN Apply(TrapWith(structBytes.s, opCode.Name, element.err), opCode.code, 1)
           ELSE \E q \in {StackPush(structBytes.s, Val(element.v))} :
             IF q.err # "" THEN Apply(Fail(structBytes.s), opCode.code, 1)
             ELSE Apply(q.s, opCode.code, 1)

DoErrHalt ==
  /\ Dispatch(ErrHalt)
  /\ \E opCode \in {OpOf(ErrHalt)} : \E s \in {Charged(opCode)} :
       Apply(Fail(s), opCode.code, 1)

DoHalt ==
  /\ Dispatch(Halt)
  /\ \E opCode \in {OpOf(Halt)} : \E s \in {Charged(opCode)} :
       Apply([s EXCEPT !.out = "true"], opCode.code, 1)

(* ------------------------------- inputs ------------------------------- *)

RECURSIVE Cat(_)
\* the bytecode made of the instructions of a list
Cat(instrs) == IF Len(instrs) = 0 THEN <<>> ELSE instrs[1] \o Cat(Tail(instrs))

\* instructions the generated programs are made of
Alphabet ==
  { <<PushInt, 1, 0, 2>>, <<PushInt, 1, 1, 3>>, <<PushInt, 0>>, <<PushInt, 1, 0, 0>>,
    <<PushBool, 1>>, <<PushBool, 0>>, <<PushBool, 2>>, <<PushChar, 65>>,
    <<PushChar, 200>>, <<PushStr, 1, 65>>, <<PushStr, 1, 200>>, <<Push, 0>>,
    <<Push, 1, 5>>, <<Dup>>, <<Roll, 0>>, <<Roll, 1>>, <<Swap>>, <<Pop>>,
    <<Add>>, <<Sub>>, <<Mul>>, <<Div>>, <<Mod>>, <<Exp>>, <<Neg>>, <<Eq>>, <<NotEq>>,
    <<Lt>>, <<Gt>>, <<LtEq>>, <<GtEq>>, <<NoOp, 0>>, <<Jmp, 0, 0>>, <<Jmp, 0, 3>>,
    <<Jmp, 1, 0>>, <<JmpTrue, 0, 0>>, <<JmpFalse, 0, 0>>, <<Call, 0, 5, 0, 0>>,
    <<Call, 0, 6, 1, 1>>, <<Call, 0, 0, 0, 0>>, <<Call, 0, 9, 0, 0>>,
    <<CallTrue, 0, 7, 0, 0>>, <<CallExt>>, <<Ret>>, <<Size>>, <<StoreLoc, 0>>,
    <<LoadLoc, 0>>, <<StoreSt, 0>>, <<LoadSt, 0>>, <<LoadSt, 1>>, <<Address>>,
    <<Issuer>>, <<Balance>>, <<Caller>>, <<CallVal>>, <<CallData>>,
    <<NewStr, 0, 1>>, <<NewStr, 0, 42>>, <<ErrHalt>>, <<Halt>>, <<65>>, <<200>> }

\* the instructions the two-instruction programs start with
Prefixes ==
  { <<PushInt, 1, 0, 2>>, <<PushInt, 1, 1, 3>>, <<PushInt, 1, 0, 0>>, <<PushBool, 1>>,
    <<PushBool, 0>>, <<PushChar, 65>>, <<Push, 0>>, <<Push, 1, 5>>, <<NoOp, 0>>,
    <<Call, 0, 6, 0, 0>>, <<Address>>, <<Balance>>, <<CallData>>, <<NewStr, 0, 1>>,
    <<LoadSt, 0>>, <<Jmp, 0, 4>> }

\* programs of one instruction, and of two instructions and a final Halt
Generated ==
  { a \o t : a \in Alphabet, t \in {<<>>, <<Halt>>} }
  \cup { a \o b \o <<Halt>> : a \in Prefixes, b \in Alphabet }

\* programs that build, read and change arrays, maps and structs
ContainerPrograms ==
  LET
      \* the instructions that leave on the stack the array of n zero elements
      \* followed by the values pushed by vals (the last pushed is appended first)
      ArrBuild(vals, n) ==
        Cat(vals) \o << Push, 1, n, NewArr >> \o [i \in 1..Len(vals) |-> ArrAppend]

      ArrValues ==
        { <<>>, << <<Push, 1, 255>> >>, << <<Push, 2, 0, 2>>, <<Push, 1, 254>> >>,
          << <<Push, 0>>, <<Push, 1, 7>> >> }

      \* arrays built by NewArr and ArrAppend and then read or changed at an index
      ArrPrograms ==
        { pre \o ArrBuild(vals, n) \o <<op, Halt>> :
            pre \in { <<Push, 1, i>> : i \in 0..4 }, vals \in ArrValues, n \in 0..2,
            op \in {ArrRemove, ArrAt} }
        \cup { <<Push, 2, 9, 9>> \o pre \o ArrBuild(vals, n) \o <<ArrInsert, Halt>> :
            pre \in { <<Push, 1, i>> : i \in 0..4 }, vals \in ArrValues, n \in 0..2 }
        \cup { ArrBuild(vals, n) \o t : vals \in ArrValues, n \in 0..2,
                                         t \in { <<Halt>>, <<ArrLen, Halt>>, <<Dup, ArrLen, Halt>> } }
        \cup { \* an index beyond 65535, an empty index, a missing index
               << Push, 3, 1, 0, 0, Push, 1, 1, NewArr, ArrAt, Halt >>,
               << Push, 3, 1, 0, 0, Push, 1, 1, NewArr, ArrRemove, Halt >>,
               << Push, 1, 5, Push, 3, 1, 0, 0, Push, 1, 1, NewArr, ArrInsert, Halt >>,
               << Push, 0, Push, 1, 1, NewArr, ArrAt, Halt >>,
               << Push, 1, 1, NewArr, ArrAt, Halt >>,
               << Push, 1, 1, NewArr, ArrRemove, Halt >>,
               << Push, 1, 1, NewArr, ArrInsert, Halt >>,
               << Push, 1, 0, Push, 1, 1, NewArr, ArrInsert, Halt >>,
               << NewArr, Halt >>, << ArrAppend >>, << ArrLen >>,
               << Push, 1, 1, NewArr, ArrAppend, Halt >>,
               \* blobs that are no arrays: another tag, a size without elements,
               \* an element shorter than its length, bytes after the last element
               << Push, 1, 0, Push, 3, 1, 0, 0, ArrAt, Halt >>,
               << Push, 1, 0, Push, 3, 2, 0, 1, ArrAt, Halt >>,
               << Push, 1, 0, Push, 6, 2, 0, 1, 0, 2, 7, ArrRemove, Halt >>,
               << Push, 1, 0, Push, 7, 2, 0, 1, 0, 1, 7, 7, ArrRemove, Halt >>,
               << Push, 1, 7, Push, 2, 2, 0, ArrAppend, Halt >>,
               << Push, 1, 7, Push, 1, 0, Push, 3, 2, 0, 1, ArrInsert, Halt >>,
               << Push, 2, 2, 0, ArrLen, Halt >>,
               \* a well-formed array pushed as bytes
               << Push, 1, 1, Push, 9, 2, 0, 2, 0, 1, 5, 0, 1, 6, ArrAt, Halt >>,
               << Push, 1, 8, Push, 9, 2, 0, 2, 0, 1, 5, 0, 1, 6, ArrAppend, Halt >> }

      \* maps of two or three entries that are read, and blobs that are no maps
      MapPrograms ==
        { pre \o << Push, 1, 9, Push, 1, 2, Push, 2, 72, 105, Push, 1, 3, NewMap, MapSetVal,
                    MapSetVal >> \o t \o <<Halt>> :
            pre \in { <<Push, 1, 3>>, <<Push, 1, 2>>, <<Push, 1, 4>>, <<Push, 0>>, <<>> },
            t \in { <<MapHasKey>>, <<MapGetVal>>, <<MapRemove>>, <<Dup, MapHasKey>> } }
        \cup { << NewMap, Halt >>, << MapSetVal >>, << MapRemove >>, << MapGetVal >>, << MapHasKey >>,
               << NewMap, MapSetVal, Halt >>, << Push, 1, 1, NewMap, MapSetVal, Halt >>,
               << NewMap, MapHasKey, Halt >>, << NewMap, MapGetVal, Halt >>,
               << NewMap, MapRemove, Halt >>,
               \* the tag of an array, a size without entries, a value shorter than
               \* its length
               << Push, 1, 3, Push, 3, 2, 0, 0, MapHasKey, Halt >>,
               << Push, 1, 3, Push, 3, 1, 0, 1, MapGetVal, Halt >>,
               << Push, 1, 3, Push, 3, 1, 0, 1, MapRemove, Halt >>,
               << Push, 1, 9, Push, 1, 3, Push, 8, 1, 0, 1, 0, 1, 3, 0, 2, MapSetVal, Halt >>,
               \* a well-formed map pushed as bytes
               << Push, 1, 3, Push, 9, 1, 0, 1, 0, 1, 3, 0, 1, 8, MapGetVal, Halt >>,
               << Push, 1, 9, Push, 1, 3, Push, 9, 1, 0, 1, 0, 1, 3, 0, 1, 8, MapSetVal, Halt >> }

      StrPrograms ==
        { << NewStr, 0, 2, Halt >>, << NewStr, 0, 2, LoadFld, 0, 1, Halt >>,
          << NewStr, 0, 2, LoadFld, 0, 2, Halt >>, << NewStr, 0, 1, Push, 1, 2, StoreFld, 0, 0, Halt >>,
          << NewStr, 0, 2, Dup, Push, 1, 2, StoreFld, 0, 0, Halt >>,
          << NewStr, 0, 2, Push, 1, 2, StoreFld, 1, 0, Halt >>,
          << StoreFld, 0, 0, Halt >>, << LoadFld, 0, 0, Halt >>, << NewStr, 0, 1, StoreFld, 0, 0, Halt >>,
          << NewStr, 0, 1, Push, 1, 2, StoreFld, 0 >>, << NewStr, 0, 1, LoadFld, 0, 0 >>,
          << Push, 3, 1, 0, 0, LoadFld, 0, 0, Halt >>, << Push, 3, 2, 0, 1, Push, 1, 2, StoreFld, 0, 0, Halt >>,
          << NewMap, LoadFld, 0, 0, Halt >>,
          << Push, 1, 1, Push, 1, 2, NewArr, ArrAppend, LoadFld, 0, 2, Halt >> }
  IN ArrPrograms \cup MapPrograms \cup StrPrograms

\* every sequence of three MapSetVal and MapRemove on the map of NewMap, and
\* every such instruction on the maps of three entries
MapSeqPrograms ==
  LET
      \* one instruction on a map with the values it pops, pushed before the map
      MapOps ==
        { [pre |-> v \o k, op |-> MapSetVal] :
            k \in { <<Push, 1, 3>>, <<Push, 1, 2>>, <<Push, 2, 3, 0>> },
            v \in { <<Push, 2, 72, 105>>, <<Push, 0>> } }
        \cup { [pre |-> k, op |-> MapRemove] :
            k \in { <<Push, 1, 3>>, <<Push, 1, 2>>, <<Push, 2, 3, 0>> } }

      MapSets == { o \in MapOps : o.op = MapSetVal }
  IN
    { c.pre \o b.pre \o a.pre \o << NewMap, a.op, b.op, c.op, Halt >> : a, b, c \in MapOps }
    \cup { d.pre \o c.pre \o b.pre \o a.pre \o << NewMap, MapSetVal, MapSetVal, MapSetVal, d.op, Halt >> :
             a \in { o \in MapSets : o.pre = <<Push, 0, Push, 1, 3>> },
             b \in { o \in MapSets : o.pre = <<Push, 2, 72, 105, Push, 1, 2>> },
             c \in { o \in MapSets : o.pre[Len(o.pre) - 2] = 2 },
             d \in MapOps }

\* programs around one instruction each: the fields of a struct, Roll, the
\* relational instructions, CallTrue
InstructionPrograms ==
  LET
      \* structs of 0 to 3 fields, two fields stored and one loaded
      StrSeqPrograms ==
        { << NewStr, 0, n, Push, 1, 2, StoreFld, 0, i >> \o v \o << StoreFld, 0, j, LoadFld, 0, k, Halt >> :
            n \in 0..3, i \in 0..3, j \in 0..3, k \in 0..2,
            v \in { <<Push, 2, 3, 4>>, <<Push, 0>> } }

      \* Roll of every argument 0..6 on the stacks of 0 to 5 values 3, 4, 5, 6, 7
      RollPrograms ==
        { Cat([i \in 1..n |-> <<Push, 1, 2 + i>>]) \o << Roll, k, Halt >> : n \in 0..5, k \in 0..6 }
        \cup { << Push, 1, 20, Roll, 0 >>, << Push, 1, 20, Roll >> }

      \* each relational instruction on every pair of these operands: single
      \* bytes, signed integers of both signs, both zeros, and the empty value
      RelPrograms ==
        LET operands == { <<0>>, <<70>>, <<200>>, <<0, 5>>, <<1, 5>>, <<0, 0>>, <<1, 0>>,
                          <<1, 1, 0>>, <<0, 200>>, <<>> }
        IN { <<Push, Len(l)>> \o l \o <<Push, Len(r)>> \o r \o <<op, Halt>> :
               l \in operands, r \in operands, op \in {Lt, Gt, LtEq, GtEq} }

      \* CallTrue and Call with the same label, arguments and stack: the label in
      \* and out of the code, more arguments than values, the condition true and
      \* false
      CallTruePrograms ==
        { << PushInt, 1, 0, 10, PushInt, 1, 0, 8, PushInt, 1, 0, 10, PushInt, 1, 0, b, Eq,
             CallTrue, 0, 25, 2, 1, Halt, NoOp, NoOp, LoadLoc, 0, LoadLoc, 1, Sub, Ret >> :
            b \in {10, 2} }
        \cup { << PushChar, 7, PushChar, 9 >> \o c \o << 0, label, nargs, 1, Halt, LoadLoc, 0, Ret >> :
                 c \in { << PushBool, 0, CallTrue >>, << PushBool, 1, CallTrue >>,
                          << PushChar, 2, CallTrue >>, << NoOp, NoOp, Call >> },
                 label \in {0, 12, 15, 16, 200}, nargs \in 0..3 }

      \* each jump with a label in the code, at its end and beyond it, on a
      \* boolean, on other values and on an empty stack
      JmpPrograms ==
        { pre \o << op, hi, label, Push, 1, 5, Halt, Push, 1, 6, Halt >> :
            pre \in { <<PushBool, 1>>, <<PushBool, 0>>, <<Push, 1, 2>>, <<Push, 2, 0, 1>>,
                      <<PushChar, 7, PushBool, 1>>, <<PushChar, 7, PushBool, 0>>, <<>> },
            op \in {Jmp, JmpTrue, JmpFalse}, hi \in {0, 1}, label \in {0, 5, 9, 12, 13, 14, 15, 200} }
        \cup { << Push, 0, op, 0, 5, Halt >> : op \in {JmpTrue, JmpFalse} }
      \* locals in nested frames: f at 6 stores local 0 and calls g, g stores
      \* its own local 0 and f loads local 0 and the unwritten local 3; f hands
      \* its local 0 to g, which negates it; locals without a frame
      LocPrograms ==
        { << Call, 0, 6, 0, 0, Halt, PushBool, 1, StoreLoc, 0, Call, 0, 22, 0, 0,
             LoadLoc, 0, Pop, LoadLoc, 3, Pop, Ret, PushBool, 0, StoreLoc, 0, Ret >>,
          << PushBool, 1, Call, 0, 8, 1, 1, Halt, LoadLoc, 0, Call, 0, 16, 1, 1, Ret,
             LoadLoc, 0, Neg, Ret >>,
          << PushBool, 1, StoreLoc, 0, Halt >>,
          << LoadLoc, 0, Halt >>,
          << PushBool, 1, Ret, Halt >>,
          << Call, 0, 6, 0, 0, Halt, StoreLoc, 0, Ret >>,
          << Call, 0, 6, 0, 0, Halt, PushBool, 1, StoreLoc >> }
  IN StrSeqPrograms \cup RollPrograms \cup RelPrograms \cup CallTruePrograms \cup JmpPrograms
       \cup LocPrograms

\* the scenarios written by hand
Curated ==
  LET
      \* the exponent 2^WordBits, which uint64() truncates to 0
      BigExponent == <<PushInt, Len(NatToBytes(TwoW)), 0>> \o NatToBytes(TwoW)

      ExpPrograms ==
        { Cat(<< e, b, <<Exp>>, <<Halt>> >>) :
            e \in { <<PushInt, 0>>, <<PushInt, 1, 0, 0>>, <<PushInt, 1, 0, 1>>, <<PushInt, 1, 0, 2>>,
                    <<PushInt, 1, 0, 3>>, <<PushInt, 1, 0, 9>>, <<PushInt, 1, 1, 2>>, <<Push, 0>>,
                    <<PushInt, 2, 0, 0, 2>> },
            b \in { <<PushInt, 1, 0, 2>>, <<PushInt, 1, 1, 3>>, <<PushInt, 0>>, <<PushInt, 1, 0, 1>> } }
        \cup { Cat(<< BigExponent, b, <<Exp>>, <<Halt>> >>) :
            b \in { <<PushInt, 1, 0, 1>>, <<PushInt, 1, 1, 1>>, <<PushInt, 0>> } }

      \* calls and returns: label, number of arguments, number of returned values
      CallPrograms ==
        { \* scenario "function call with locals": 10 - 8 in a function
          << PushInt, 1, 0, 10, PushInt, 1, 0, 8, Call, 0, 14, 2, 1, Halt,
             LoadLoc, 0, LoadLoc, 1, Sub, Ret >>,
          \* a function without arguments returning two values
          << Call, 0, 6, 0, 2, Halt, PushBool, 1, PushBool, 0, Ret >>,
          \* the function returns fewer values than declared
          << Call, 0, 6, 0, 2, Halt, PushBool, 1, Ret >>,
          \* the function returns more values than declared
          << PushBool, 1, Call, 0, 8, 1, 1, Halt, LoadLoc, 0, LoadLoc, 0, Ret >>,
          \* nested calls: f at 6 calls g at 14
          << Call, 0, 6, 0, 1, Halt, Call, 0, 14, 0, 1, PushBool, 1, Add, Ret,
             PushInt, 1, 0, 4, Ret >>,
          << Call, 0, 6, 0, 1, Halt, Call, 0, 12, 0, 1, Ret, PushInt, 1, 0, 4, Ret >>,
          \* the callee pops a value that the caller left below its frame
          << PushBool, 1, PushBool, 0, Call, 0, 10, 1, 1, Halt, Pop, LoadLoc, 0, Ret >>,
          << PushBool, 1, PushBool, 0, Call, 0, 10, 1, 0, Halt, Pop, Pop, Ret >>,
          \* CallTrue taken and not taken
          << PushBool, 0, PushBool, 1, CallTrue, 0, 10, 1, 1, Halt, LoadLoc, 0, Ret >>,
          << PushBool, 1, PushBool, 0, CallTrue, 0, 10, 1, 1, Halt, LoadLoc, 0, Ret >>,
          << Push, 0, CallTrue, 0, 8, 0, 0, Halt, Ret >>,
          \* a recursive call without a base case
          << Call, 0, 1, 0, 0, Halt >>,
          << PushBool, 1, Call, 0, 2, 1, 1, Halt >>,
          \* a call whose label is the length of the code, then the end of the code
          << Call, 0, 6, 0, 0, Halt >>,
          \* a function that starts with a byte that is no opcode
          << PushBool, 1, Call, 0, 7, 0, 0, 200 >>,
          \* more arguments than values
          << PushBool, 1, Call, 0, 8, 2, 0, Halt, Ret >>,
          \* a label just beyond the code, and the label 0, with an argument on the stack
          << PushBool, 1, Call, 0, 9, 1, 0, Halt >>,
          << PushBool, 1, Call, 0, 0, 1, 0, Halt >>,
          \* locals written and read back in the callee
          << Call, 0, 6, 0, 1, Halt, PushChar, 7, StoreLoc, 3, LoadLoc, 3, LoadLoc, 4, Pop, Ret >> }

      \* loops a gas budget has to end
      LoopPrograms ==
        { << Jmp, 0, 0 >>,
          << Jmp, 0, 0, Halt >>,
          << NoOp, 0, Jmp, 0, 0, Halt >>,
          << PushBool, 1, Pop, Jmp, 0, 0, Halt >>,
          << NoOp, 0, Jmp, 0, 0 >>,
          << PushBool, 1, Jmp, 0, 0 >>,
          << PushBool, 1, Pop, Jmp, 0, 0 >>,
          << PushBool, 1, PushBool, 0, Swap, Jmp, 0, 4 >>,
          << PushBool, 1, Dup, JmpTrue, 0, 2, Halt >>,
          << PushBool, 0, Dup, JmpFalse, 0, 2, Halt >>,
          << PushBool, 1, Neg, JmpFalse, 0, 0, Halt >>,
          \* the same Push executed again after its value was negated
          << Push, 1, 1, Neg, Pop, Jmp, 0, 0, Halt >>,
          << PushInt, 1, 0, 5, Dup, Neg, Pop, Neg, JmpTrue, 0, 0, Halt >> }

      \* programs that fill the evaluation stack before an instruction fails or pushes
      FullPrograms ==
        { Cat(<< <<Address>>, <<Address>>, i >>) : i \in Alphabet \cup {<<>>} }
        \cup { Cat(<< <<Address>>, <<Issuer>>, i >>) : i \in Alphabet \cup {<<>>} }
        \cup { Cat(<< <<Address>>, <<Issuer>>, <<PushInt, 1, 0, 2>>, i, <<Halt>> >>) : i \in Alphabet }
        \cup { Cat(<< <<Address>>, <<Issuer>>, <<NewStr, 0, n>>, <<Halt>> >>) : n \in {9, 10, 11} }

      \* a CallExt with its 37 bytes of immediates; arithmetic and stores
      OtherPrograms ==
        { <<CallExt>> \o Zeros(37) \o <<Halt>>,
          <<CallExt>> \o Zeros(36) \o <<Halt>>,
          \* TestVM_PopBytesOutOfGas, and an operand of two units above one of
          \* one unit
          << PushInt, 1, 0, 8, PushInt, 1, 0, 8, Add, Halt >>,
          << Push, 1, 5, Push, 65 >> \o Zeros(65) \o << Eq, Halt >>,
          << PushInt, 1, 0, 7, PushInt, 1, 0, 2, Div, Halt >>,
          << PushInt, 1, 1, 7, PushInt, 1, 0, 2, Mod, Halt >>,
          << PushInt, 1, 0, 6, PushInt, 1, 0, 0, Div, Halt >>,
          << PushInt, 1, 0, 125, PushInt, 2, 0, 168, 22, Add, Halt >>,
          << PushInt, 1, 0, 2, PushInt, 1, 0, 2, Sub, Halt >>,
          << PushInt, 1, 0, 2, PushInt, 1, 1, 3, Mul, Halt >>,
          << PushInt, 1, 0, 2, PushInt, 1, 0, 3, Lt, Halt >>,
          << PushChar, 3, PushChar, 2, GtEq, Halt >>,
          << PushChar, 3, Push, 0, Gt, Halt >>,
          << PushChar, 3, PushChar, 3, LtEq, Neg, Halt >>,
          << PushBool, 1, StoreSt, 0, LoadSt, 0, Halt >>,
          << PushBool, 1, StoreSt, 5, Halt >>,
          << NewStr, 0, 22, Size, Halt >>,
          << NewStr, 0, 22, Dup, Eq, Halt >>,
          << PushInt, 1, 0, 1, PushInt, 1, 0, 2, PushInt, 1, 0, 3, Roll, 1, Roll, 0, Roll, 3, Halt >>,
          << Push, 3, 1, 2, 3, PushStr, 2, 65, 66, NotEq >>,
          \* zero pushed in two encodings and compared; 2 - 2 compared with a pushed zero
          << PushInt, 0, PushInt, 1, 0, 0, Eq, Halt >>,
          << PushInt, 1, 0, 2, PushInt, 1, 0, 2, Sub, PushInt, 1, 1, 0, Eq, Halt >>,
          << PushInt, 1, 0, 2, PushInt, 1, 0, 2, Sub, PushInt, 0, Eq, Halt >>,
          << PushInt, 2, 0, 0, 5, PushInt, 1, 0, 5, NotEq, Halt >>,
          \* immediates that end at the last byte of the code or beyond it
          << Push, 2, 128, Halt >>,
          << Push, 1, 0, Push, 12, 1, 0, 3, 18, 5 >>,
          << PushInt, 1, 0 >>,
          << PushInt, 1, 0, 5 >>,
          << PushStr, 2, 65, 66 >>,
          << Jmp, 0 >>,
          << PushBool, 1, JmpTrue, 0, 0 >>,
          << PushBool, 0, JmpFalse, 0 >>,
          << PushBool, 1, CallTrue, 0, 9 >>,
          << PushBool, 1, Call, 0, 4, 1 >>,
          << Push, 0 >>,
          << PushStr, 0 >> }

      \* divisions: dividends and divisors of both signs, zero in several encodings
      DivPrograms ==
        { Cat(<< l, r, <<op>>, <<Halt>> >>) :
            l \in { <<PushInt, 1, 0, 7>>, <<PushInt, 1, 1, 7>>, <<PushInt, 0>>, <<PushInt, 1, 0, 6>> },
            r \in { <<PushInt, 1, 0, 2>>, <<PushInt, 1, 1, 2>>, <<PushInt, 1, 0, 7>>, <<PushInt, 1, 1, 9>>,
                    <<PushInt, 0>>, <<PushInt, 1, 0, 0>>, <<PushInt, 1, 1, 0>>, <<PushInt, 2, 0, 0, 0>>,
                    <<PushBool, 1>>, <<PushBool, 0>> },
            op \in {Div, Mod} }
  IN
    ExpPrograms \cup CallPrograms \cup LoopPrograms \cup FullPrograms \cup OtherPrograms
      \cup DivPrograms

Input(c, f, d, v) == [contract |-> c, fee |-> f, data |-> d, cv |-> v]

\* what the host supplies to one execution
Inputs ==
  LET
      \* budgets of the programs that work on containers: too small for the first
      \* instructions, too small for the last ones, sufficient
      ContainerFees == { MaxFee, 20, 1000 }

      FeeLow == 0..MaxFee

      \* budgets around the base price 1000 and around the sign bit of the word
      FeeHigh == { 20, 1000, 1004, HalfW - 1, HalfW, HalfW + 1, HalfW + 2, HalfW + 5, TwoW - 1 }

      TxData == { <<>>, <<1, 9, 2, 8, 7>>, <<2, 9>>, <<0, 1, 5>>, <<1, 9, 3, 8>>,
                  <<1, 2, 1, 5, 4, 16, 18, 4, 18>> }

      ContractVars == { <<>>, << <<0, 4>> >> }

      \* programs that read the transaction data or the contract variables
      HostPrograms ==
        { <<CallData>>, <<CallData, Halt>>, <<Address, CallData, CallData, CallData, Halt>>,
          <<LoadSt, 0, Halt>>, <<LoadSt, 1, Halt>>, <<PushBool, 1, StoreSt, 0, LoadSt, 0, Halt>>,
          <<PushBool, 1, StoreSt, 1, Halt>> }
  IN
    { Input(c, f, <<1, 9, 2, 8, 7>>, << <<0, 4>> >>) : c \in Generated, f \in FeeLow }
    \cup { Input(c, f, <<>>, <<>>) : c \in Curated, f \in FeeLow \cup FeeHigh }
    \cup { Input(c, f, <<>>, <<>>) : c \in ContainerPrograms,
                                     f \in ContainerFees }
    \cup { Input(c, 1000, <<>>, <<>>) : c \in MapSeqPrograms \cup InstructionPrograms }
    \cup { Input(c, f, d, v) : c \in HostPrograms, f \in {MaxFee, 20, 1004},
                                d \in TxData, v \in ContractVars }

\* the VM that NewVM returns, with the context i
Created(i) ==
  /\ ctxContract = i.contract
  /\ ctxFee = i.fee
  /\ ctxData = i.data
  /\ contractVariables = i.cv
  /\ code = <<>>
  /\ pc = 0
  /\ fee = 0
  /\ evaluationStack = <<>>
  /\ memoryUsage = 0
  /\ callStack = <<>>
  /\ heapTop = HeapBase
  /\ status = "Created"
  /\ instrCount = 0
  /\ lastOp = -1
  /\ trap = <<>>

\* no function of utils.go is applied on its own
Init ==
  /\ \E i \in Inputs : Created(i)
  /\ utilCall = "" /\ utilArg = 0 /\ utilRes = 0

Next ==
  \/ ExecStart \/ FetchFail \/ InvalidOpCode \/ OutOfGas
  \/ DoPushInt \/ DoPushBool \/ DoPushChar \/ DoPushStr \/ DoPush
  \/ DoDup \/ DoRoll \/ DoSwap \/ DoPop
  \/ DoAdd \/ DoSub \/ DoMul \/ DoDiv \/ DoMod \/ DoExp \/ DoNeg
  \/ DoEq \/ DoNotEq \/ DoLt \/ DoGt \/ DoLtEq \/ DoGtEq
  \/ DoNoOp \/ DoJmp \/ DoJmpTrue \/ DoJmpFalse
  \/ DoCallOp \/ DoCallTrue \/ DoCallExt \/ DoRet
  \/ DoSize \/ DoStoreLoc \/ DoStoreSt \/ DoLoadLoc \/ DoLoadSt
  \/ DoAddress \/ DoIssuer \/ DoBalance \/ DoCaller \/ DoCallVal \/ DoCallData
  \/ DoNewMap \/ DoMapHasKey \/ DoMapGetVal \/ DoMapSetVal \/ DoMapRemove
  \/ DoNewArr \/ DoArrAppend \/ DoArrInsert \/ DoArrRemove \/ DoArrAt \/ DoArrLen
  \/ DoNewStr \/ DoStoreFld \/ DoLoadFld \/ DoErrHalt \/ DoHalt

Spec == Init /\ [][Next]_vars

(* ------------------- the functions of utils.go alone ------------------ *)

\* the integers the functions are applied to: small ones of both signs and
\* the neighbours of the powers of 256 and of the two limits
UtilInit ==
  LET pos == (0..130) \cup (254..258) \cup (65534..65538)
               \cup ((UIntMax - 2)..(UIntMax + 2))
  IN /\ Created(Input(<<>>, 0, <<>>, <<>>))
     /\ utilCall = ""
     /\ utilArg \in pos \cup { -n : n \in pos }
     /\ utilRes = 0

\* the function named call returns res
Returned(call, res) ==
  /\ utilCall' = call
  /\ utilRes' = res
  /\ UNCHANGED utilArg
  /\ UNCHANGED << ctxContract, ctxFee, ctxData, contractVariables, code, pc, fee,
                  evaluationStack, memoryUsage, callStack, heapTop, status, instrCount,
                  lastOp, trap >>

EncodeSigned ==
  /\ utilCall = ""
  /\ Returned("SignedByteArrayConversion", SignedByteArrayConversion(utilArg))

\* the encoding is decoded again
DecodeSigned ==
  /\ utilCall = "SignedByteArrayConversion"
  /\ Returned("SignedBigIntConversion", SignedBigIntConversion(utilRes, ""))

ToUInt16 ==
  /\ utilCall = ""
  /\ Returned("BigIntToUInt16", BigIntToUInt16(utilArg))

ToUInt ==
  /\ utilCall = ""
  /\ Returned("BigIntToUInt", BigIntToUInt(utilArg))

UtilNext == EncodeSigned \/ DecodeSigned \/ ToUInt16 \/ ToUInt

UtilSpec == UtilInit /\ [][UtilNext]_vars

TypeOK ==
  /\ status \in {"Created", "Running", "ReturnedTrue", "ReturnedFalse", "Panicked"}
  /\ fee \in 0..(TwoW - 1)
  /\ pc \in 0..65535
  /\ memoryUsage \in 0..MemoryMax

(* ------------------------------- claims ------------------------------- *)

C2_TerminatesWithinGas == instrCount <= ctxFee + 1 /\ status # "Panicked"

\* C3: whenever Exec returns false because an error was trapped, the top of
\* the evaluation stack is a diagnostic that begins with the name of the
\* trapping opcode, or with "vm.exec()" for a fetch or top-level error.
C3_TrapLeavesDiagnosticOnTop ==
  (status = "ReturnedFalse" /\ lastOp # ErrHalt) =>
    /\ Len(evaluationStack) > 0
    /\ evaluationStack[Len(evaluationStack)].loc \in
         {"vm.exec()"} \cup (IF lastOp \in 0..Halt THEN {OpOf(lastOp).Name} ELSE {})

\* C4: Exec starts in Running; once it has returned nothing is fetched or
\* executed any more; a trapped error makes it return false at once; it
\* returns true exactly when a Halt was executed while Running.
C4_OutcomesAbsorbing ==
  [][ /\ status \in {"Created", "Running"}
      /\ (status = "Created" => status' = "Running")
      /\ (trap' # <<>> => status' = "ReturnedFalse")
      /\ ((status' = "ReturnedTrue") <=> (status = "Running" /\ lastOp' = Halt)) ]_vars

\* an error was trapped while instructions were left in the bytecode: Exec
\* has returned false
C4_Witness == status = "ReturnedFalse" /\ trap # <<>> /\ pc < Len(code) /\ instrCount >= 2

\* C5: an opcode whose base gasPrice exceeds the remaining gas is not
\* executed: Exec traps with "vm.exec(): out of gas" and the gas counter,
\* the call stack and the evaluation stack below the diagnostic are
\* unchanged; otherwise the gas counter is reduced by exactly gasPrice
\* before the opcode's semantics run, which charge only for metered pops.
C5_BaseCharge ==
  [][ (status = "Running" /\ pc < Len(code) /\ code[pc + 1] <= Halt) =>
        LET opCode == OpOf(code[pc + 1])
            d == Diag("vm.exec()", "out of gas", -1)
        IN IF fee < opCode.gasPrice
           THEN /\ status' = "ReturnedFalse"
                /\ trap' = <<d>>
                /\ fee' = fee
                /\ callStack' = callStack
                /\ evaluationStack' \in {evaluationStack, Append(evaluationStack, d)}
           ELSE /\ fee' <= fee - opCode.gasPrice
                /\ opCode.code \in { PushInt, PushBool, PushChar, PushStr, Push, Roll, Swap,
                                     NoOp, Jmp, CallExt, Ret, LoadSt, LoadLoc, Address, Issuer,
                                     Balance, Caller, CallVal, CallData, NewStr, ErrHalt, Halt }
                     => fee' = fee - opCode.gasPrice ]_vars

\* the budget did not cover the base price of an opcode fetched with values
\* on the evaluation stack
C5_Witness ==
  /\ status = "ReturnedFalse"
  /\ trap = << Diag("vm.exec()", "out of gas", -1) >>
  /\ Len(evaluationStack) >= 2
  /\ fee = 0

\* C6: for every gas value g, a metered pop with the charge
\* c = gasFactor * ceil(L / 64) fails with "Out of gas" exactly when g < c
\* and otherwise reduces the gas counter by exactly c (stated for the opcodes
\* that start with one metered pop: Pop, Dup, Neg, Size).
C6_MeteredPopChargesExactly ==
  [][ ( /\ status = "Running" /\ pc < Len(code) /\ code[pc + 1] \in {Pop, Dup, Neg, Size}
        /\ Len(evaluationStack) > 0 /\ fee >= OpOf(code[pc + 1]).gasPrice ) =>
        LET opCode == OpOf(code[pc + 1])
            g == fee - opCode.gasPrice
            c == opCode.gasFactor * ((Len(evaluationStack[Len(evaluationStack)].b) + 63) \div 64)
        IN IF g < c
           THEN trap' = << Diag(opCode.Name, "Out of gas", -1) >>
           ELSE /\ fee' = g - c
                /\ \A i \in 1..Len(trap') : trap'[i].msg # "Out of gas" ]_vars

\* C7: Exp with the exponent e >= 1 charges gasPrice * (e - 1) on top of its
\* base price and its pop charges: a successful Exp has reduced the gas
\* counter by that amount too, and Exp fails with "exp: Out of gas" when the
\* gas left after the pops is smaller than that amount.
C7_ExpChargesPerMultiplication ==
  [][ ( /\ status = "Running" /\ pc < Len(code) /\ code[pc + 1] = Exp
        /\ Len(evaluationStack) >= 2
        /\ Len(evaluationStack[Len(evaluationStack)].b) > 0
        /\ Len(evaluationStack[Len(evaluationStack) - 1].b) > 0
        /\ fee < HalfW ) =>
        LET opCode == OpOf(Exp)
            n == Len(evaluationStack)
            e == SignedBigIntConversion(evaluationStack[n - 1].b, "").v
            g == fee - opCode.gasPrice
                   - opCode.gasFactor * ((Len(evaluationStack[n].b) + 63) \div 64)
                   - opCode.gasFactor * ((Len(evaluationStack[n - 1].b) + 63) \div 64)
        IN (g >= 0 /\ e >= 1) =>
             IF g < opCode.gasPrice * (e - 1)
             THEN trap' = << Diag(opCode.Name, "Out of gas", -1) >>
             ELSE status' = "Running" => fee' = g - opCode.gasPrice * (e - 1) ]_vars

\* C8: Exp pops the base (top of the stack) and then the exponent e; with
\* e >= 0 and the gas that C7 asks for it pushes base ** e as a signed big
\* integer, with e = 0 it pushes 1 whatever gas is left after the pops, and
\* with e < 0 it traps with "exp: Negative exponents are not allowed." and
\* pushes no result.
C8_ExpResult ==
  [][ ( /\ status = "Running" /\ pc < Len(code) /\ code[pc + 1] = Exp
        /\ Len(evaluationStack) >= 2
        /\ Len(evaluationStack[Len(evaluationStack)].b) > 0
        /\ Len(evaluationStack[Len(evaluationStack) - 1].b) > 0
        /\ fee < HalfW ) =>
        LET opCode == OpOf(Exp)
            n == Len(evaluationStack)
            base == SignedBigIntConversion(evaluationStack[n].b, "").v
            e == SignedBigIntConversion(evaluationStack[n - 1].b, "").v
            rest == SubSeq(evaluationStack, 1, n - 2)
            g == fee - opCode.gasPrice
                   - opCode.gasFactor * ((Len(evaluationStack[n].b) + 63) \div 64)
                   - opCode.gasFactor * ((Len(evaluationStack[n - 1].b) + 63) \div 64)
            d == Diag(opCode.Name, "Negative exponents are not allowed.", -1)
        IN g >= 0 =>
             IF e < 0
             THEN /\ status' = "ReturnedFalse"
                  /\ trap' = <<d>>
                  /\ evaluationStack' \in {rest, Append(rest, d)}
             ELSE IF e = 0
             THEN /\ status' = "Running"
                  /\ Len(evaluationStack') = n - 1
                  /\ SubSeq(evaluationStack', 1, n - 2) = rest
                  /\ evaluationStack'[n - 1].b = <<0, 1>>
             ELSE g >= opCode.gasPrice * (e - 1) =>
                    \/ /\ status' = "Running"
                       /\ Len(evaluationStack') = n - 1
                       /\ SubSeq(evaluationStack', 1, n - 2) = rest
                       /\ evaluationStack'[n - 1].b = SignedByteArrayConversion(base ^ e)
                    \/ trap' = << Diag(opCode.Name, "stack overflow / memory exceeded", -1) >>
    ]_vars

\* Exp has pushed (-3) ** 2 = 9 and execution goes on
C8_Witness ==
  /\ lastOp = Exp
  /\ status = "Running"
  /\ Len(evaluationStack) = 1
  /\ evaluationStack[1].b = <<0, 9>>
  /\ Len(code) >= 8
  /\ SubSeq(code, 1, 8) = << PushInt, 1, 0, 2, PushInt, 1, 1, 3 >>

\* C9: when a successful Ret removes the frame of a successful
\* Call label nargs nret, the depth of the evaluation stack right after the
\* Ret is the depth right before the Call plus nret - nargs.
C9_CallRetDepth ==
  [][ ( /\ status = "Running" /\ pc < Len(code) /\ code[pc + 1] = Ret
        /\ status' = "Running" /\ Len(callStack) > 0
        /\ callStack[Len(callStack)].callOp = Call ) =>
        LET frame == callStack[Len(callStack)]
        IN /\ code[frame.callPc + 1] = Call
           /\ frame.nargs = code[frame.callPc + 4]
           /\ frame.nrOfReturnTypes = code[frame.callPc + 5]
           /\ Len(evaluationStack') = frame.depthBefore + frame.nrOfReturnTypes - frame.nargs
    ]_vars

\* a Ret has returned to the instruction after a Call with two arguments
\* and one returned value
C9_Witness ==
  /\ lastOp = Ret
  /\ status = "Running"
  /\ pc >= 5
  /\ code[pc - 4] = Call
  /\ code[pc - 1] = 2
  /\ code[pc] = 1
  /\ Len(evaluationStack) = 1

\* C10: every successful Ret removes exactly the newest frame of the call
\* stack and sets pc to the return address that frame recorded, the offset
\* of the instruction right after the immediates of the Call or CallTrue
\* that pushed it; the frames below are left as they are (LIFO).
C10_RetReturnsToCaller ==
  [][ ( /\ status = "Running" /\ pc < Len(code) /\ code[pc + 1] = Ret
        /\ status' = "Running" ) =>
        /\ Len(callStack) > 0
        /\ callStack' = SubSeq(callStack, 1, Len(callStack) - 1)
        /\ LET frame == callStack[Len(callStack)]
           IN /\ pc' = frame.returnAddress
              /\ code[frame.callPc + 1] \in {Call, CallTrue}
              /\ frame.returnAddress = frame.callPc + 5 ]_vars

\* the Ret of a nested call has returned into the function that made it,
\* whose own frame is still on the call stack
C10_Witness ==
  /\ lastOp = Ret
  /\ status = "Running"
  /\ Len(callStack) = 1
  /\ pc # callStack[1].returnAddress

\* C11: a Ret executed when the depth of the evaluation stack minus the
\* evalStackOffset of the newest frame differs from the number of return
\* values that frame declares traps with "ret: Number of returned elements
\* does not match."; the frame stays on the call stack and pc is not set to
\* the return address (it stays right after the Ret).
C11_RetMismatchTraps ==
  [][ ( /\ status = "Running" /\ pc < Len(code) /\ code[pc + 1] = Ret
        /\ fee >= OpOf(Ret).gasPrice /\ Len(callStack) > 0
        /\ Len(evaluationStack) - callStack[Len(callStack)].evalStackOffset
             # callStack[Len(callStack)].nrOfReturnTypes ) =>
        /\ status' = "ReturnedFalse"
        /\ trap' = << Diag("ret", "Number of returned elements does not match.", -1) >>
        /\ callStack' = callStack
        /\ pc' = pc + 1 ]_vars

\* a function that declared two return values has executed Ret with one
\* value on the evaluation stack
C11_Witness ==
  /\ lastOp = Ret
  /\ status = "ReturnedFalse"
  /\ trap = << Diag("ret", "Number of returned elements does not match.", -1) >>
  /\ Len(callStack) = 1
  /\ callStack[1].nrOfReturnTypes = 2
  /\ Len(evaluationStack) = 2

\* C12: Call label nargs nret with label = 0 or label > len(code) traps with
\* "call: ReturnAddress out of bounds" before any argument is popped and
\* without pushing a frame; with 1 <= label <= len(code), len(code) itself
\* included, the frame is pushed and pc becomes label (the arguments being
\* on the stack, of at most 64 bytes each, with gas for their pops), and no
\* such label is refused as out of bounds.
C12_CallLabelBounds ==
  [][ ( /\ status = "Running" /\ Len(code) >= pc + 5 /\ code[pc + 1] = Call
        /\ fee >= OpOf(Call).gasPrice ) =>
        LET opCode == OpOf(Call)
            label == 256 * code[pc + 2] + code[pc + 3]
            nargs == code[pc + 4]
            n == Len(evaluationStack)
            d == Diag(opCode.Name, "ReturnAddress out of bounds", -1)
        IN IF label = 0 \/ label > Len(code)
           THEN /\ status' = "ReturnedFalse"
                /\ trap' = <<d>>
                /\ callStack' = callStack
                /\ evaluationStack' \in {evaluationStack, Append(evaluationStack, d)}
                /\ fee' = fee - opCode.gasPrice
           ELSE /\ \A i \in 1..Len(trap') : trap'[i].msg # "ReturnAddress out of bounds"
                /\ ( /\ n >= nargs /\ fee < HalfW /\ fee - opCode.gasPrice >= nargs
                      /\ \A i \in (n - nargs + 1)..n : Len(evaluationStack[i].b) <= 64 ) =>
                     /\ status' = "Running"
                     /\ Len(callStack') = Len(callStack) + 1
                     /\ SubSeq(callStack', 1, Len(callStack)) = callStack
                     /\ pc' = label ]_vars

\* a Call whose label is the length of the bytecode has pushed its frame
C12_Witness ==
  /\ lastOp = Call
  /\ status = "Running"
  /\ pc = Len(code)
  /\ Len(callStack) = 1

C15_BytecodeReadOnly == status # "Created" => code = ctxContract

\* C16: fetchMany(n) succeeds only when len(code) - pc > n: an instruction
\* whose multi-byte immediate would end exactly at the last byte of the
\* bytecode, or beyond it, traps with "<opname>: Instruction set out of
\* bounds", the failed fetchMany does not advance pc, and nothing but the
\* diagnostic is pushed; an immediate that ends before the last byte is
\* fetched.
C16_FetchManyStrict ==
  [][ ( /\ status = "Running" /\ pc < Len(code)
        /\ code[pc + 1] \in { PushInt, PushStr, Push, Jmp, JmpTrue, JmpFalse, Call, CallTrue,
                              CallExt, NewStr }
        /\ fee >= OpOf(code[pc + 1]).gasPrice
        /\ code[pc + 1] \in {PushInt, PushStr, Push} => Len(code) > pc + 1
        /\ code[pc + 1] = PushInt => code[pc + 2] # 0 ) =>
        LET op == code[pc + 1]
            at == IF op \in {PushInt, PushStr, Push} THEN pc + 2 ELSE pc + 1
            n == IF op \in {PushStr, Push} THEN code[pc + 2]
                 ELSE IF op = PushInt THEN code[pc + 2] + 1
                 ELSE IF op = CallExt THEN 32 ELSE 2
            d == Diag(OpOf(op).Name, "Instruction set out of bounds", -1)
            depth == Len(evaluationStack)
            left == {evaluationStack} \cup
                      (IF op \in {JmpTrue, JmpFalse, CallTrue} /\ depth > 0
                       THEN {SubSeq(evaluationStack, 1, depth - 1)} ELSE {})
        IN IF Len(code) - at <= n
           THEN /\ status' = "ReturnedFalse"
                /\ trap' = <<d>>
                /\ op \notin {Call, CallTrue, CallExt} => pc' = at
                /\ \E rest \in left : evaluationStack' \in {rest, Append(rest, d)}
                /\ callStack' = callStack
           ELSE op \notin {Call, CallTrue, CallExt} =>
                  /\ trap' # <<d>>
                  /\ op = Jmp => (status' = "Running" /\ pc' = 256 * code[pc + 2] + code[pc + 3])
                  /\ (op \in {PushInt, Push} /\ status' = "Running") =>
                       (pc' = at + n /\ evaluationStack'[depth + 1].b = SubSeq(code, at + 1, at + n))
    ]_vars

\* a Push whose immediate bytes would end exactly at the last byte of the
\* bytecode has trapped, pc still at the first of them
C16_Witness ==
  /\ lastOp = Push
  /\ status = "ReturnedFalse"
  /\ trap = << Diag("push", "Instruction set out of bounds", -1) >>
  /\ code[pc] >= 1
  /\ pc + code[pc] = Len(code)

\* C17: when the byte fetched as an opcode is not a code of the opcode table
\* (it is greater than Halt), execution traps with "vm.exec(): Not a valid
\* opCode", no gas is charged for it, and the evaluation stack below the
\* diagnostic and the call stack are unchanged.
C17_InvalidOpCodeTraps ==
  [][ (status = "Running" /\ pc < Len(code) /\ code[pc + 1] > Halt) =>
        LET d == Diag("vm.exec()", "Not a valid opCode", -1)
        IN /\ status' = "ReturnedFalse"
           /\ trap' = <<d>>
           /\ fee' = fee
           /\ callStack' = callStack
           /\ evaluationStack' \in {evaluationStack, Append(evaluationStack, d)} ]_vars

\* a byte that is no opcode was fetched inside a function, with a value on
\* the evaluation stack and gas left
C17_Witness ==
  /\ status = "ReturnedFalse"
  /\ lastOp > Halt
  /\ trap = << Diag("vm.exec()", "Not a valid opCode", -1) >>
  /\ Len(callStack) = 1
  /\ Len(evaluationStack) = 2
  /\ fee > 0

\* C18 as stated: Neg succeeds only on a boolean operand (the single byte 0
\* or 1), which it flips; on every other operand, a multi-byte signed
\* integer such as [0, 5] included, it traps with "neg: unable to negate
\* <b>" and never pushes a sign-inverted integer (stated for the operands of
\* at least one byte, popped with gas for the pop).
C18_NegOnlyOnBooleans ==
  [][ ( /\ status = "Running" /\ pc < Len(code) /\ code[pc + 1] = Neg
        /\ Len(evaluationStack) > 0
        /\ Len(evaluationStack[Len(evaluationStack)].b) \in 1..64
        /\ fee < HalfW /\ fee >= OpOf(Neg).gasPrice + OpOf(Neg).gasFactor ) =>
        LET n == Len(evaluationStack)
            tos == evaluationStack[n].b
        IN IF tos \in {<<0>>, <<1>>}
           THEN /\ status' = "Running"
                /\ Len(evaluationStack') = n
                /\ evaluationStack'[n].b = <<1 - tos[1]>>
           ELSE /\ status' = "ReturnedFalse"
                /\ Len(trap') = 1
                /\ trap'[1].loc = "neg" /\ trap'[1].msg = "unable to negate " ]_vars

\* C18 as amended: Neg succeeds exactly when the first byte of its operand
\* is 0 or 1; it flips that byte and leaves the others, so a boolean is
\* negated and a signed integer such as [0, 5] has its sign inverted; when
\* the first byte is greater than 1 it traps with "neg: unable to negate
\* <first byte>" and pushes no result.
C18_NegFlipsFirstByte ==
  [][ ( /\ status = "Running" /\ pc < Len(code) /\ code[pc + 1] = Neg
        /\ Len(evaluationStack) > 0
        /\ Len(evaluationStack[Len(evaluationStack)].b) \in 1..64
        /\ fee < HalfW /\ fee >= OpOf(Neg).gasPrice + OpOf(Neg).gasFactor ) =>
        LET n == Len(evaluationStack)
            tos == evaluationStack[n].b
            d == Diag("neg", "unable to negate ", tos[1])
        IN IF tos[1] \in {0, 1}
           THEN /\ status' = "Running"
                /\ Len(evaluationStack') = n
                /\ evaluationStack'[n].b = <<1 - tos[1]>> \o Tail(tos)
           ELSE /\ status' = "ReturnedFalse"
                /\ trap' = <<d>>
                /\ Len(evaluationStack') \in {n - 1, n}
                /\ Len(evaluationStack') = n => evaluationStack'[n] = d ]_vars

\* Neg has turned the integer 2, pushed as [0, 2], into -2
C18_Witness ==
  /\ lastOp = Neg
  /\ status = "Running"
  /\ Len(evaluationStack) = 1
  /\ evaluationStack[1].b = <<1, 2>>

\* C19: zero is canonical on the evaluation stack: every value left by an
\* instruction that produces a signed integer (PushInt, Add, Sub, Mul, Div,
\* Mod, Exp) and that denotes zero is exactly the single byte [0].
C19_ZeroIsCanonical ==
  [][ ( /\ status = "Running" /\ status' = "Running"
        /\ lastOp' \in {PushInt, Add, Sub, Mul, Div, Mod, Exp} ) =>
        LET v == evaluationStack'[Len(evaluationStack')].b
        IN /\ Len(v) >= 1
           /\ BytesToNat(Tail(v)) = 0 => v = <<0>> ]_vars

\* C20: Div and Mod whose right operand (the top of the stack) decodes to
\* zero, in any encoding of zero, trap with "div: Division by Zero" /
\* "mod: Division by Zero" and push no result; with a right operand that is
\* not zero they never trap with that message (both operands being on the
\* stack, of 1 to 64 bytes, with gas for their pops).
C20_DivisionByZeroTraps ==
  [][ ( /\ status = "Running" /\ pc < Len(code) /\ code[pc + 1] \in {Div, Mod}
        /\ Len(evaluationStack) >= 2
        /\ Len(evaluationStack[Len(evaluationStack)].b) \in 1..64
        /\ Len(evaluationStack[Len(evaluationStack) - 1].b) \in 1..64
        /\ fee < HalfW
        /\ fee >= OpOf(code[pc + 1]).gasPrice + 2 * OpOf(code[pc + 1]).gasFactor ) =>
        LET opCode == OpOf(code[pc + 1])
            n == Len(evaluationStack)
            right == BytesToNat(Tail(evaluationStack[n].b))
            rest == SubSeq(evaluationStack, 1, n - 2)
            d == Diag(opCode.Name, "Division by Zero", -1)
        IN IF right = 0
           THEN /\ status' = "ReturnedFalse"
                /\ trap' = <<d>>
                /\ evaluationStack' \in {rest, Append(rest, d)}
           ELSE /\ status' = "Running"
                /\ trap' = <<>>
                /\ Len(evaluationStack') = n - 1 ]_vars

\* Mod has trapped on a divisor that was pushed as [1, 0]
C20_Witness ==
  /\ lastOp = Mod
  /\ status = "ReturnedFalse"
  /\ trap = << Diag("mod", "Division by Zero", -1) >>
  /\ Len(code) >= 8
  /\ SubSeq(code, 5, 8) = << PushInt, 1, 1, 0 >>

\* C21: decoding the signed encoding of an integer n returns n; the encoding
\* of 0 is the single byte [0]; the encoding of another n is a sign byte (0
\* for a positive n, 1 for a negative one) followed by the big-endian
\* magnitude of n without a leading zero byte.
C21_SignedRoundTrip ==
  /\ utilCall = "SignedByteArrayConversion" =>
       IF utilArg = 0 THEN utilRes = <<0>>
       ELSE /\ Len(utilRes) >= 2
            /\ utilRes[1] = (IF utilArg < 0 THEN 1 ELSE 0)
            /\ utilRes[2] # 0
            /\ \A i \in 2..Len(utilRes) : utilRes[i] \in 0..255
            /\ BytesToNat(Tail(utilRes)) = Abs(utilArg)
  /\ utilCall = "SignedBigIntConversion" => utilRes = [err |-> "", v |-> utilArg]

\* a negative number of a two-byte magnitude was encoded and decoded
C21_Witness ==
  /\ utilCall = "SignedBigIntConversion"
  /\ utilArg = -65536
  /\ utilRes.v = -65536

GasForPops(n) ==
  LET opCode == OpOf(code[pc + 1])
      m == Len(evaluationStack)
      cost[k \in 0..n] ==
        IF k = 0 THEN opCode.gasPrice
        ELSE cost[k - 1] + PopCost(opCode, evaluationStack[m - k + 1].b)
  IN m >= n /\ fee < HalfW /\ fee >= cost[n]

\* C23: on a well-formed array, ArrAppend of a value v makes the size one
\* larger and the element at the old size is v; ArrRemove at an index
\* i < size makes the size one smaller, leaves the elements before i as they
\* were and moves the elements after i one position to the left (the gas
\* paying the pops and the memory holding the result).
C23_ArrayAppendRemove ==
  [][ ( /\ status = "Running" /\ pc < Len(code) /\ code[pc + 1] \in {ArrAppend, ArrRemove}
        /\ GasForPops(2)
        /\ ArrayFromByteArray(evaluationStack[Len(evaluationStack)].b).err = ""
        /\ memoryUsage + 2 <= MemoryMax ) =>
        LET n == Len(evaluationStack)
            old == ArrayFromByteArray(evaluationStack[n].b).elems
            size == Len(old)
            arg == evaluationStack[n - 1].b
            new == ArrayFromByteArray(evaluationStack'[n - 1].b)
        IN IF code[pc + 1] = ArrAppend
           THEN /\ status' = "Running"
                /\ Len(evaluationStack') = n - 1
                /\ new.err = ""
                /\ BytesToNat(SubSeq(evaluationStack'[n - 1].b, 2, 3)) = size + 1
                /\ ArrayGetSize(new) = size + 1
                /\ ArrayAt(new, size) = [err |-> "", v |-> arg]
           ELSE BytesToNat(arg) < size =>
                /\ status' = "Running"
                /\ Len(evaluationStack') = n - 1
                /\ new.err = ""
                /\ BytesToNat(SubSeq(evaluationStack'[n - 1].b, 2, 3)) = size - 1
                /\ ArrayGetSize(new) = size - 1
                /\ \A j \in 1..size :
                     /\ j < BytesToNat(arg) + 1 => new.elems[j] = old[j]
                     /\ j > BytesToNat(arg) + 1 => new.elems[j - 1] = old[j] ]_vars

\* ArrRemove has removed the first of three elements of different lengths
C23_Witness ==
  /\ lastOp = ArrRemove
  /\ status = "Running"
  /\ Len(evaluationStack) = 1
  /\ evaluationStack[1].b = ArrayBytes(<< <<254>>, <<0, 2>> >>)

\* the blob is a map in its layout without two entries of the same key
WellFormedMap(b) ==
  LET m == MapFromByteArray(b)
  IN /\ m.err = ""
     /\ BytesToNat(SubSeq(b, 2, 3)) = Len(m.entries)
     /\ \A i, j \in 1..Len(m.entries) : m.entries[i].k = m.entries[j].k => i = j

\* C24: on a well-formed map, MapSetVal of a key k and a value v leaves a map
\* that contains k with the value v, in which every other key is present
\* exactly if it was and keeps its value; MapRemove of a key the map contains
\* leaves a map that does not contain it (the gas paying the pops and the
\* memory holding the result).
C24_MapSetRemove ==
  [][ ( /\ status = "Running" /\ pc < Len(code) /\ code[pc + 1] \in {MapSetVal, MapRemove}
        /\ GasForPops(IF code[pc + 1] = MapSetVal THEN 3 ELSE 2)
        /\ WellFormedMap(evaluationStack[Len(evaluationStack)].b)
        /\ memoryUsage + 4 <= MemoryMax ) =>
        LET n == Len(evaluationStack)
            old == MapFromByteArray(evaluationStack[n].b).entries
            k == evaluationStack[n - 1].b
        IN IF code[pc + 1] = MapSetVal
           THEN LET v == evaluationStack[n - 2].b
                    new == MapFromByteArray(evaluationStack'[n - 2].b)
                IN /\ status' = "Running"
                   /\ Len(evaluationStack') = n - 2
                   /\ WellFormedMap(evaluationStack'[n - 2].b)
                   /\ \E i \in 1..Len(new.entries) : new.entries[i] = [k |-> k, v |-> v]
                   /\ \A i \in 1..Len(old) : old[i].k # k =>
                        \E j \in 1..Len(new.entries) : new.entries[j] = old[i]
                   /\ \A j \in 1..Len(new.entries) : new.entries[j].k # k =>
                        \E i \in 1..Len(old) : new.entries[j] = old[i]
           ELSE (\E i \in 1..Len(old) : old[i].k = k) =>
                LET new == MapFromByteArray(evaluationStack'[n - 1].b)
                IN /\ status' = "Running"
                   /\ Len(evaluationStack') = n - 1
                   /\ new.err = ""
                   /\ \A j \in 1..Len(new.entries) : new.entries[j].k # k ]_vars

\* MapSetVal has replaced the value of the second of two keys
C24_Witness ==
  /\ lastOp = MapSetVal
  /\ status = "Running"
  /\ Len(evaluationStack) = 1
  /\ evaluationStack[1].b = MapBytes(<< [k |-> <<2>>, v |-> <<72, 105>>],
                                        [k |-> <<3>>, v |-> <<>>] >>)
  /\ SubSeq(code, 1, 2) = << Push, 0 >>

\* the entries of the map without those of the key k
WithoutKey(entries, k) == SelectSeq(entries, LAMBDA e : e.k # k)

\* C25: in a program that applies MapSetVal and MapRemove to the map of
\* NewMap, every map on the stack has no two entries with byte-wise equal
\* keys and a size field equal to its number of entries; MapSetVal of an
\* absent key adds the entry after the others, MapSetVal of a present key
\* keeps the place of every entry, and MapRemove keeps the order of the
\* entries that remain.
C25_MapInvariant ==
  /\ [](ctxContract \in MapSeqPrograms =>
          \A i \in 1..Len(evaluationStack) :
            (Len(evaluationStack[i].b) >= 3 /\ evaluationStack[i].b[1] = 1) =>
              WellFormedMap(evaluationStack[i].b))
  /\ [][ ( /\ ctxContract \in MapSeqPrograms
            /\ status = "Running" /\ status' = "Running"
            /\ pc < Len(code) /\ code[pc + 1] \in {MapSetVal, MapRemove} ) =>
            LET n == Len(evaluationStack)
                old == MapFromByteArray(evaluationStack[n].b).entries
                k == evaluationStack[n - 1].b
                new == MapFromByteArray(evaluationStack'[Len(evaluationStack')].b).entries
            IN IF code[pc + 1] = MapRemove THEN new = WithoutKey(old, k)
               ELSE IF \E i \in 1..Len(old) : old[i].k = k
                 THEN /\ Len(new) = Len(old)
                      /\ \A i \in 1..Len(old) : new[i].k = old[i].k
               ELSE new = Append(old, [k |-> k, v |-> evaluationStack[n - 2].b]) ]_vars

\* the first of three entries was removed: the two others kept their order
C25_Witness ==
  /\ ctxContract \in MapSeqPrograms
  /\ lastOp = MapRemove
  /\ status = "Running"
  /\ Len(evaluationStack) >= 1
  /\ MapFromByteArray(evaluationStack[Len(evaluationStack)].b).err = ""
  /\ MapFromByteArray(evaluationStack[Len(evaluationStack)].b).entries
       = << [k |-> <<2>>, v |-> <<72, 105>>], [k |-> <<3, 0>>, v |-> <<>>] >>

\* C26: NewStr n pushes a struct of n fields that are each the single byte
\* 0; StoreFld i of a value v on a struct of n fields, for every i < n (the
\* last index and the earlier ones), leaves a struct of n fields whose field
\* i is v and whose other fields are unchanged; LoadFld i pushes field i.
C26_StructFields ==
  [][ ( /\ status = "Running" /\ pc < Len(code) /\ code[pc + 1] \in {NewStr, StoreFld, LoadFld}
        /\ Len(code) - (pc + 1) > 2
        /\ GasForPops(CASE code[pc + 1] = NewStr -> 0 [] code[pc + 1] = StoreFld -> 2
                         [] code[pc + 1] = LoadFld -> 1) ) =>
        LET n == Len(evaluationStack)
            k == 256 * code[pc + 2] + code[pc + 3]
        IN CASE code[pc + 1] = NewStr ->
                  memoryUsage + 3 + 3 * k <= MemoryMax =>
                    /\ status' = "Running"
                    /\ Len(evaluationStack') = n + 1
                    /\ ArrayFromByteArray(evaluationStack'[n + 1].b)
                         = [err |-> "", elems |-> [i \in 1..k |-> <<0>>]]
             [] code[pc + 1] = StoreFld ->
                  LET old == ArrayFromByteArray(evaluationStack[n - 1].b)
                      v == evaluationStack[n].b
                      new == ArrayFromByteArray(evaluationStack'[n - 1].b)
                  IN (old.err = "" /\ k < Len(old.elems)) =>
                       /\ status' = "Running"
                       /\ Len(evaluationStack') = n - 1
                       /\ new.err = ""
                       /\ Len(new.elems) = Len(old.elems)
                       /\ \A i \in 1..Len(old.elems) :
                            new.elems[i] = IF i = k + 1 THEN v ELSE old.elems[i]
             [] code[pc + 1] = LoadFld ->
                  LET old == ArrayFromByteArray(evaluationStack[n].b)
                  IN (old.err = "" /\ k < Len(old.elems)) =>
                       /\ status' = "Running"
                       /\ Len(evaluationStack') = n
                       /\ evaluationStack'[n].b = old.elems[k + 1] ]_vars

\* the first of three fields was stored after the last one
C26_Witness ==
  /\ lastOp = StoreFld
  /\ status = "Running"
  /\ Len(evaluationStack) = 1
  /\ evaluationStack[1].b = ArrayBytes(<< <<3, 4>>, <<0>>, <<2>> >>)

RECURSIVE SumLen(_)
\* the sum of the lengths of the values of a stack
SumLen(stack) == IF Len(stack) = 0 THEN 0 ELSE ValLen(stack[1]) + SumLen(Tail(stack))

\* the length of the value an instruction without pops pushes
PushedLen(op) ==
  CASE op = Address -> 64 [] op = Issuer -> 32 [] op = Caller -> 32
    [] op = Balance -> 8 [] op = CallVal -> 8 [] op = NewMap -> 3

\* C27: memoryUsage is always the sum of the lengths of the values on the
\* evaluation stack and never above memoryMax; an instruction whose push
\* would exceed memoryMax fails with "stack overflow / memory exceeded" and
\* leaves the stack and memoryUsage as they were (but for the diagnostic,
\* when that fits); Pop lowers memoryUsage by the length of the value it
\* removes, and Roll, which removes a value by its index and pushes it,
\* leaves memoryUsage as it was.
C27_MemoryUsage ==
  /\ [](memoryUsage = SumLen(evaluationStack) /\ memoryUsage <= MemoryMax)
  /\ [][ (status = "Running" /\ pc < Len(code) /\ fee >= 1 /\ fee < HalfW) =>
          LET op == code[pc + 1]
              n == Len(evaluationStack)
          IN /\ (op \in {Address, Issuer, Caller, Balance, CallVal, NewMap}
                   /\ memoryUsage + PushedLen(op) > MemoryMax) =>
                  LET d == Diag(OpOf(op).Name, "stack overflow / memory exceeded", -1)
                  IN /\ status' = "ReturnedFalse"
                     /\ trap' = <<d>>
                     /\ IF memoryUsage + ValLen(d) > MemoryMax
                        THEN evaluationStack' = evaluationStack /\ memoryUsage' = memoryUsage
                        ELSE /\ evaluationStack' = Append(evaluationStack, d)
                             /\ memoryUsage' = memoryUsage + ValLen(d)
             /\ (op = Pop /\ n >= 1) =>
                  /\ evaluationStack' \in { SubSeq(evaluationStack, 1, n - 1),
                        Append(SubSeq(evaluationStack, 1, n - 1), Diag("pop", "Out of gas", -1)) }
                  /\ status' = "Running" => memoryUsage' = memoryUsage - ValLen(evaluationStack[n])
             /\ (op = Roll /\ status' = "Running") =>
                  /\ memoryUsage' = memoryUsage
                  /\ Len(evaluationStack') = n ]_vars

\* the stack is full to the last byte and a push of 32 bytes has failed
C27_Witness ==
  /\ lastOp = Issuer
  /\ status = "ReturnedFalse"
  /\ trap = << Diag("issuer", "stack overflow / memory exceeded", -1) >>
  /\ Len(evaluationStack) = 2
  /\ memoryUsage + 32 > MemoryMax

\* C28: Roll k on a stack of depth n moves the element at index n - (k + 2)
\* from the bottom to the top and keeps the order of the others and the
\* depth; it changes nothing when n = k + 1; it traps with "roll: index out
\* of bounds" when k >= n.
C28_Roll ==
  [][ ( /\ status = "Running" /\ pc + 1 < Len(code) /\ code[pc + 1] = Roll
        /\ fee >= OpOf(Roll).gasPrice ) =>
        LET k == code[pc + 2]
            n == Len(evaluationStack)
            index == n - (k + 2)
            d == Diag("roll", "index out of bounds", -1)
        IN IF k >= n
           THEN /\ status' = "ReturnedFalse"
                /\ trap' = <<d>>
                /\ evaluationStack' \in { evaluationStack, Append(evaluationStack, d) }
           ELSE /\ status' = "Running"
                /\ pc' = pc + 2
                /\ evaluationStack' =
                     IF n = k + 1 THEN evaluationStack
                     ELSE SubSeq(evaluationStack, 1, index)
                            \o SubSeq(evaluationStack, index + 2, n)
                            \o << evaluationStack[index + 1] >> ]_vars

\* Roll 2 on the values 3, 4, 5, 6, 7 has brought 4 to the top
C28_Witness ==
  /\ lastOp = Roll
  /\ status = "Running"
  /\ Len(evaluationStack) = 5
  /\ [i \in 1..5 |-> evaluationStack[i].b] = << <<3>>, <<5>>, <<6>>, <<7>>, <<4>> >>

\* C29: Lt, Gt, LtEq and GtEq compare two single bytes byte-wise (unsigned)
\* and any other pair as decoded signed integers; whenever they do not trap,
\* LtEq pushes the negation of what Gt pushes on the same operands and GtEq
\* the negation of what Lt pushes.
C29_RelationalComp ==
  [][ ( /\ status = "Running" /\ status' = "Running"
        /\ pc < Len(code) /\ code[pc + 1] \in {Lt, Gt, LtEq, GtEq}
        /\ Len(evaluationStack) >= 2 ) =>
        LET n == Len(evaluationStack)
            right == evaluationStack[n].b
            left == evaluationStack[n - 1].b
            chars == Len(left) = 1 /\ Len(right) = 1
            l == IF chars THEN left[1] ELSE SignedBigIntConversion(left, "").v
            r == IF chars THEN right[1] ELSE SignedBigIntConversion(right, "").v
            lt == l < r
            gt == l > r
            op == code[pc + 1]
            pushed == IF op = Lt THEN lt ELSE IF op = Gt THEN gt
                      ELSE IF op = LtEq THEN ~gt ELSE ~lt
        IN /\ Len(left) > 0 /\ Len(right) > 0
           /\ Len(evaluationStack') = n - 1
           /\ SubSeq(evaluationStack', 1, n - 2) = SubSeq(evaluationStack, 1, n - 2)
           /\ evaluationStack'[n - 1].b = BoolToByteArray(pushed) ]_vars

\* LtEq on -5 and 5 has pushed true
C29_Witness ==
  /\ lastOp = LtEq
  /\ status = "Running"
  /\ code = << Push, 2, 1, 5, Push, 2, 0, 5, LtEq, Halt >>
  /\ Len(evaluationStack) = 1
  /\ evaluationStack[1].b = <<1>>

\* C30: a CallTrue whose popped boolean is false pushes no frame, pops no
\* argument, does not look at its label and continues after its immediates;
\* a CallTrue whose popped boolean is true does to the stack without that
\* boolean what Call with the same label, nargs and nret does.
C30_CallTrue ==
  [][ LET label == 256 * code[pc + 2] + code[pc + 3]
          nargs == code[pc + 4]
          nret == code[pc + 5]
          \* what a call does to the stack st
          Called(name, st) ==
            LET m == Len(st)
            IN IF label = 0 \/ label > Len(code)
               THEN /\ status' = "ReturnedFalse"
                    /\ trap' = << Diag(name, "ReturnAddress out of bounds", -1) >>
                    /\ callStack' = callStack
               ELSE IF nargs > m
               THEN /\ status' = "ReturnedFalse"
                    /\ trap' = << Diag(name, "pop() on empty stack", -1) >>
                    /\ callStack' = callStack
               ELSE /\ status' = "Running"
                    /\ pc' = label
                    /\ evaluationStack' = SubSeq(st, 1, m - nargs)
                    /\ Len(callStack') = Len(callStack) + 1
                    /\ SubSeq(callStack', 1, Len(callStack)) = callStack
                    /\ LET frame == callStack'[Len(callStack')]
                       IN /\ frame.returnAddress = pc + 5
                          /\ frame.nrOfReturnTypes = nret
                          /\ frame.evalStackOffset = m - nargs
                          /\ frame.variables =
                               [k \in 0..(nargs - 1) |-> st[m - nargs + k + 1]]
          n == Len(evaluationStack)
          enough(k) == GasForPops(IF k <= n THEN k ELSE n)
      IN /\ ( /\ status = "Running" /\ Len(code) >= pc + 5 /\ code[pc + 1] = Call
               /\ enough(nargs) ) =>
               Called(OpOf(Call).Name, evaluationStack)
         /\ ( /\ status = "Running" /\ Len(code) >= pc + 5 /\ code[pc + 1] = CallTrue
               /\ n >= 1 /\ Len(evaluationStack[n].b) > 0 /\ enough(nargs + 1) ) =>
               IF evaluationStack[n].b[1] = 0
               THEN /\ status' = "Running"
                    /\ pc' = pc + 5
                    /\ callStack' = callStack
                    /\ evaluationStack' = SubSeq(evaluationStack, 1, n - 1)
               ELSE Called(OpOf(CallTrue).Name, SubSeq(evaluationStack, 1, n - 1)) ]_vars

\* a CallTrue with a false condition and a label outside the code has gone on
\* to the next instruction with its two arguments still on the stack
C30_Witness ==
  /\ lastOp = CallTrue
  /\ status = "Running"
  /\ callStack = <<>>
  /\ Len(code) = 15
  /\ code[9] = 200
  /\ code[10] = 2
  /\ pc = 11
  /\ [i \in 1..Len(evaluationStack) |-> evaluationStack[i].b] = << <<7>>, <<9>> >>

\* C31: JmpTrue and JmpFalse pop exactly one value; JmpTrue continues at its
\* label exactly when the popped boolean is non-zero, JmpFalse exactly when
\* it is zero, and otherwise both continue after the 2-byte label; Jmp always
\* continues at its label; with pc at or beyond the end of the code the next
\* fetch traps with "vm.exec(): Instruction set out of bounds".
C31_Jumps ==
  [][ LET label == 256 * code[pc + 2] + code[pc + 3]
          n == Len(evaluationStack)
      IN /\ ( /\ status = "Running" /\ Len(code) > pc + 3 /\ code[pc + 1] = Jmp
               /\ fee >= OpOf(Jmp).gasPrice ) =>
               /\ status' = "Running"
               /\ pc' = label
               /\ evaluationStack' = evaluationStack
         /\ ( /\ status = "Running" /\ Len(code) > pc + 3
               /\ code[pc + 1] \in {JmpTrue, JmpFalse}
               /\ n >= 1 /\ Len(evaluationStack[n].b) = 1 /\ GasForPops(1) ) =>
               /\ status' = "Running"
               /\ evaluationStack' = SubSeq(evaluationStack, 1, n - 1)
               /\ pc' = IF (evaluationStack[n].b[1] # 0) = (code[pc + 1] = JmpTrue)
                        THEN label ELSE pc + 3
         /\ ( status = "Running" /\ pc >= Len(code) ) =>
               /\ status' = "ReturnedFalse"
               /\ trap' = << Diag("vm.exec()", "Instruction set out of bounds", -1) >>
    ]_vars

\* a JmpFalse on a false boolean has jumped beyond the end of the code and
\* the next fetch has trapped
C31_Witness ==
  /\ status = "ReturnedFalse"
  /\ trap = << Diag("vm.exec()", "Instruction set out of bounds", -1) >>
  /\ Len(code) = 15
  /\ code[5] = JmpFalse
  /\ pc = 200
  /\ [i \in 1..(Len(evaluationStack) - 1) |-> evaluationStack[i].b] = << <<7>> >>

RECURSIVE Parameters(_)
\* the parameters of a transaction-data blob, each after its length byte;
\* ok is false when a length overruns the blob
Parameters(td) ==
  IF Len(td) = 0 THEN [ok |-> TRUE, ps |-> <<>>]
  ELSE IF td[1] > Len(td) - 1 THEN [ok |-> FALSE, ps |-> <<>>]
  ELSE LET r == Parameters(SubSeq(td, td[1] + 2, Len(td)))
       IN [ok |-> r.ok, ps |-> << SubSeq(td, 2, td[1] + 1) >> \o r.ps]

\* C32: CallData on a well-formed blob of m length-prefixed parameters pushes
\* exactly m values, in blob order with the last parameter on top, each the
\* bytes of its parameter without the length byte; when a length overruns
\* the blob it traps with "calldata: Index out of bounds".
C32_CallData ==
  [][ ( /\ status = "Running" /\ pc < Len(code) /\ code[pc + 1] = CallData
        /\ fee >= OpOf(CallData).gasPrice
        /\ memoryUsage + Len(ctxData) <= MemoryMax ) =>
        LET p == Parameters(ctxData)
            n == Len(evaluationStack)
        IN IF p.ok
           THEN /\ status' = "Running"
                /\ Len(evaluationStack') = n + Len(p.ps)
                /\ SubSeq(evaluationStack', 1, n) = evaluationStack
                /\ \A i \in 1..Len(p.ps) :
                     /\ ~IsDiag(evaluationStack'[n + i])
                     /\ evaluationStack'[n + i].b = p.ps[i]
           ELSE /\ status' = "ReturnedFalse"
                /\ trap' = << Diag(OpOf(CallData).Name, "Index out of bounds", -1) >> ]_vars

\* the three parameters of the blob 1 2 1 5 4 16 18 4 18 are on the stack,
\* the last one on top
C32_Witness ==
  /\ lastOp = CallData
  /\ status = "Running"
  /\ ctxData = <<1, 2, 1, 5, 4, 16, 18, 4, 18>>
  /\ [i \in 1..Len(evaluationStack) |-> evaluationStack[i].b]
       = << <<2>>, <<5>>, <<16, 18, 4, 18>> >>

\* C33: ArrInsert, ArrAt, ArrRemove, StoreFld and LoadFld on a well-formed
\* container with an index at or above its size trap with an index out of
\* bounds diagnostic and push neither a container nor an element; with an
\* index below the size they hand no such diagnostic to the stack.
C33_IndexOutOfBounds ==
  [][ LET op == code[pc + 1]
          n == Len(evaluationStack)
          isArr == op \in {ArrInsert, ArrAt, ArrRemove}
          pops == IF op = ArrInsert THEN 3 ELSE IF op = LoadFld THEN 1 ELSE 2
          container == IF op = StoreFld THEN evaluationStack[n - 1].b ELSE evaluationStack[n].b
          index == IF isArr THEN BytesToNat(evaluationStack[n - 1].b)
                   ELSE 256 * code[pc + 2] + code[pc + 3]
          arr == ArrayFromByteArray(container)
          rest == SubSeq(evaluationStack, 1, n - pops)
          messages == {"Index out of bounds", "index out of bounds"}
      IN ( /\ status = "Running" /\ pc < Len(code)
           /\ op \in {ArrInsert, ArrAt, ArrRemove, StoreFld, LoadFld}
           /\ (~isArr => Len(code) > pc + 3)
           /\ n >= pops /\ GasForPops(pops)
           /\ arr.err = "" /\ index <= UInt16Max ) =>
           IF index >= Len(arr.elems)
           THEN /\ status' = "ReturnedFalse"
                /\ Len(trap') = 1
                /\ trap'[1].loc = OpOf(op).Name
                /\ trap'[1].msg \in messages
                /\ evaluationStack' \in { rest, rest \o trap' }
           ELSE \A i \in 1..Len(trap') : trap'[i].msg \notin messages ]_vars

\* ArrAt with the index 2 on an array of two elements has trapped and left
\* nothing but its diagnostic
C33_Witness ==
  /\ lastOp = ArrAt
  /\ status = "ReturnedFalse"
  /\ ctxContract = << Push, 1, 2, Push, 2, 0, 2, Push, 1, 254, Push, 1, 0, NewArr,
                      ArrAppend, ArrAppend, ArrAt, Halt >>
  /\ trap = << Diag("arrat", "Index out of bounds", -1) >>
  /\ evaluationStack = trap

\* the bytes of the locals of a frame
LocalsOf(frame) == [k \in DOMAIN frame.variables |-> frame.variables[k].b]

\* C34: StoreLoc i writes only local i of the frame on top of the call
\* stack; the locals of a frame that has a frame above it are changed by no
\* instruction, so after the callee's Ret the caller's locals have the
\* values they had just before the Call; LoadLoc of an index never written in
\* the top frame pushes an empty blob.
C34_LocalsIsolation ==
  [][ LET d == Len(callStack)
          n == Len(evaluationStack)
          op == code[pc + 1]
      IN /\ ( /\ status = "Running" /\ pc + 1 < Len(code) /\ op = StoreLoc
              /\ d >= 1 /\ n >= 1 /\ GasForPops(1) ) =>
              /\ status' = "Running"
              /\ Len(callStack') = d
              /\ \A i \in 1..(d - 1) : callStack'[i] = callStack[i]
              /\ LocalsOf(callStack'[d])
                   = LocalsOf([variables |-> SetVar(callStack[d].variables, code[pc + 2],
                                                    evaluationStack[n])])
         /\ ( /\ status = "Running" /\ pc + 1 < Len(code) /\ op = LoadLoc
              /\ d >= 1 /\ fee >= OpOf(LoadLoc).gasPrice
              /\ code[pc + 2] \notin DOMAIN callStack[d].variables ) =>
              /\ status' = "Running"
              /\ Len(evaluationStack') = n + 1
              /\ evaluationStack'[n + 1].b = <<>>
              /\ ~IsDiag(evaluationStack'[n + 1])
         /\ \A i \in 1..d :
              (i <= Len(callStack') /\ (i < d \/ i < Len(callStack'))) =>
                LocalsOf(callStack'[i]) = LocalsOf(callStack[i]) ]_vars

\* C35: the call-stack depth equals the number of taken Call/CallTrue
\* instructions minus the number of successful Ret instructions and is never
\* negative: it is 0 when Exec starts, a taken Call or CallTrue makes it one
\* larger, a successful Ret one smaller, and every other step leaves it.
\* Ret, LoadLoc and StoreLoc that reach their peek at depth 0 (the immediate
\* is present and StoreLoc's operand is popped) trap with "<opname>: peek()
\* on empty callStack", leave the call stack empty and do not redirect pc.
C35_CallStackDepth ==
  [][ LET d == Len(callStack)
          n == Len(evaluationStack)
          op == IF status = "Running" /\ pc < Len(code) THEN code[pc + 1] ELSE -1
          taken == \/ op = Call
                   \/ /\ op = CallTrue /\ n >= 1
                      /\ Len(evaluationStack[n].b) >= 1
                      /\ ByteArrayToBool(evaluationStack[n].b)
          peeks == \/ op = Ret
                   \/ op = LoadLoc /\ pc + 1 < Len(code)
                   \/ op = StoreLoc /\ pc + 1 < Len(code) /\ n >= 1 /\ GasForPops(1)
      IN /\ (status = "Created" => d = 0)
         /\ Len(callStack') =
              IF status' = "Running" /\ taken THEN d + 1
              ELSE IF status' = "Running" /\ op = Ret THEN d - 1
              ELSE d
         /\ Len(callStack') >= 0
         /\ ( /\ d = 0 /\ peeks /\ fee >= OpOf(op).gasPrice ) =>
              /\ status' = "ReturnedFalse"
              /\ Len(trap') >= 1
              /\ \A i \in 1..Len(trap') :
                   trap'[i] = Diag(OpOf(op).Name, "peek() on empty callStack", -1)
              /\ callStack' = <<>>
              /\ pc' = IF op = Ret THEN pc + 1 ELSE pc + 2 ]_vars

\* Ret without a frame has trapped after PushBool: the call stack is empty
\* and pc is behind the Ret
C35_Witness ==
  /\ lastOp = Ret
  /\ status = "ReturnedFalse"
  /\ ctxContract = << PushBool, 1, Ret, Halt >>
  /\ callStack = <<>>
  /\ pc = 3
  /\ trap[1] = Diag("ret", "peek() on empty callStack", -1)

\* C36: for every bytecode, context and gas budget each instruction either
\* completes or traps and Exec returns a boolean: no step of the running
\* interpreter ends in a runtime panic (a read of the bytecode outside
\* [0, len(code)) or an index into an empty popped value).
C36_NeverPanics ==
  [][ status = "Running" => status' \in {"Running", "ReturnedTrue", "ReturnedFalse"} ]_vars

RECURSIVE FeeAfterPops(_, _, _)
\* the fee after metered pops of the values vs, the first one first: a pop
\* that can be paid subtracts its cost, a pop that fails leaves the fee
FeeAfterPops(f, opCode, vs) ==
  IF Len(vs) = 0 THEN f
  ELSE LET gasCost == PopCost(opCode, vs[1].b)
       IN FeeAfterPops(IF I64(U64(f - gasCost)) < 0 THEN f ELSE U64(f - gasCost),
                       opCode, Tail(vs))

\* C37: when a metered pop fails with "Out of gas" the gas counter keeps the
\* value it had just before that pop, the value that was being popped is
\* removed from the evaluation stack and not restored, and the diagnostic is
\* pushed in its place: an instruction whose first metered pop cannot be paid
\* returns false with "<opname>: Out of gas", and after an instruction that
\* trapped so, the stack is the old one without its k topmost values plus the
\* diagnostic, and the fee is the charged fee less the pops of those k values
\* that could be paid.
C37_OutOfGasPop ==
  [][ ( status = "Running" /\ pc < Len(code) /\ code[pc + 1] \in 0..Halt ) =>
        LET opCode == OpOf(code[pc + 1])
            n == Len(evaluationStack)
            f0 == fee - opCode.gasPrice
            d == Diag(opCode.Name, "Out of gas", -1)
            popped(k) == [i \in 1..k |-> evaluationStack[n + 1 - i]]
        IN /\ ( /\ opCode.code \in {Add, Sub, Mul, Div, Mod, Neg, Eq, NotEq, Lt, Gt, LtEq, GtEq,
                                     Size}
                /\ n >= 1 /\ f0 >= 0
                /\ I64(U64(f0 - PopCost(opCode, evaluationStack[n].b))) < 0 ) =>
                (status' = "ReturnedFalse" /\ trap' = <<d>>)
           /\ ( status' = "ReturnedFalse" /\ trap' = <<d>> /\ opCode.code # Exp ) =>
                \E k \in 1..n :
                  /\ evaluationStack' = SubSeq(evaluationStack, 1, n - k) \o <<d>>
                  /\ fee' = FeeAfterPops(f0, opCode, popped(k))
                  /\ \E i \in 1..k :
                       I64(U64(FeeAfterPops(f0, opCode, popped(i - 1))
                                 - PopCost(opCode, evaluationStack[n + 1 - i].b))) < 0 ]_vars

\* TestVM_PopBytesOutOfGas: Add has run out of gas on its pops, the fee is 0
\* and the two operands are gone
C37_Witness ==
  /\ instrCount = 3
  /\ lastOp = Add
  /\ status = "ReturnedFalse"
  /\ ctxContract = << PushInt, 1, 0, 8, PushInt, 1, 0, 8, Add, Halt >>
  /\ ctxFee = 3
  /\ fee = 0
  /\ evaluationStack = << Diag("add", "Out of gas", -1) >>

\* C38: a trapping instruction pushes exactly one diagnostic value: when Exec
\* returns false for a trapped error, the evaluation stack consists of values
\* that remained after the instruction's own pops plus exactly one diagnostic
\* on top, for every opcode including Ret on an empty call stack, whereas
\* ErrHalt pushes nothing.
C38_OneDiagnostic ==
  [][ ( status = "Running" /\ status' = "ReturnedFalse" ) =>
        LET n == Len(evaluationStack')
            isErrHalt == /\ pc < Len(code) /\ code[pc + 1] = ErrHalt
                         /\ fee >= OpOf(ErrHalt).gasPrice
        IN IF isErrHalt THEN trap' = <<>> /\ evaluationStack' = evaluationStack
           ELSE /\ Len(trap') = 1
                /\ n >= 1 /\ n - 1 <= Len(evaluationStack)
                /\ evaluationStack'[n] = trap'[1]
                /\ \A i \in 1..(n - 1) : evaluationStack'[i].b = evaluationStack[i].b ]_vars

\* C39: for every left operand a and non-zero right operand b of any signs,
\* the quotient q pushed by Div satisfies 0 <= a - b * q < |b| and the
\* remainder r pushed by Mod satisfies 0 <= r < |b| with a - r a multiple of
\* b, so that a = b * q + r for the q and r of the same operands (Euclidean
\* division), and Mod never pushes a negative value.
C39_EuclideanDivMod ==
  [][ LET n == Len(evaluationStack)
          a == SignedBigIntConversion(evaluationStack[n - 1].b, "")
          b == SignedBigIntConversion(evaluationStack[n].b, "")
          res == SignedBigIntConversion(evaluationStack'[n - 1].b, "")
      IN ( /\ status = "Running" /\ pc < Len(code) /\ code[pc + 1] \in {Div, Mod}
           /\ n >= 2 /\ GasForPops(2)
           /\ a.err = "" /\ b.err = "" /\ b.v # 0 ) =>
           /\ status' = "Running"
           /\ Len(evaluationStack') = n - 1
           /\ ~IsDiag(evaluationStack'[n - 1])
           /\ res.err = ""
           /\ code[pc + 1] = Div => ( a.v - b.v * res.v \in 0..(Abs(b.v) - 1) )
           /\ code[pc + 1] = Mod => ( /\ res.v \in 0..(Abs(b.v) - 1)
                                      /\ (a.v - res.v) % Abs(b.v) = 0
                                      /\ evaluationStack'[n - 1].b[1] = 0 ) ]_vars

\* Mod of -7 by 2 has pushed 1
C39_Witness ==
  /\ lastOp = Mod
  /\ status = "Running"
  /\ ctxContract = << PushInt, 1, 1, 7, PushInt, 1, 0, 2, Mod, Halt >>
  /\ Len(evaluationStack) = 1
  /\ evaluationStack[1].b = <<0, 1>>

====
